---- MODULE Spec2Model ----
(***************************************************************************)
(* Organisation-graph widgets: graph state synchronisation, interaction    *)
(* reconciliation, pending-connection negotiation and the layout cache.    *)
(*                                                                         *)
(* The repository holds several variants of the widget together with the   *)
(* demo applications that own their state.  The variable `widget` names    *)
(* the mounted pair:                                                       *)
(*   "OrgNetworkFlow"    self-managed widget (useNodesState/useEdgesState) *)
(*   "OrgNetworkflow2"   controlled widget with type picker, owner App2    *)
(*   "onChangeWidget"    controlled widget reporting through onChange,     *)
(*                       owner as in the README example                    *)
(*   "orgNetworkWidget"  controlled widget with structureKey layout cache, *)
(*                       owner App3                                        *)
(* Strings that the code concatenates, sorts or compares are sequences of  *)
(* one-character strings; fixed words that are only appended (connection   *)
(* types, directions) are single tokens.                                   *)
(***************************************************************************)
EXTENDS Integers, Sequences, FiniteSets, TLC

VARIABLES widget, nodes, edges, direction,
          pendingConnection, modalState, selectedNodeId, selectedEdgeId,
          now, calls, lastOp,
          prevStructureKey, cachedLayout, rfData, solverRan, steps, readOnly,
          localNodes, localEdges, effectsPending

vars == <<widget, nodes, edges, direction,
          pendingConnection, modalState, selectedNodeId, selectedEdgeId,
          now, calls, lastOp,
          prevStructureKey, cachedLayout, rfData, solverRan, steps, readOnly,
          localNodes, localEdges, effectsPending>>

graphVars == <<nodes, edges>>
uiVars == <<pendingConnection, modalState, selectedNodeId, selectedEdgeId>>

-----------------------------------------------------------------------------
(* Bounds of the exploration                                               *)

MaxEdges == 3
MaxNodes == 4
MaxClock == 2
MaxEdits == 1
(* Number of user operations explored from the mounted state. *)
MaxSteps == 3

-----------------------------------------------------------------------------
(* Strings                                                                 *)

Code(ch) ==
    CASE ch = "," -> 44 [] ch = "-" -> 45
      [] ch = "0" -> 48 [] ch = "1" -> 49 [] ch = "2" -> 50 [] ch = "3" -> 51
      [] ch = "4" -> 52 [] ch = "5" -> 53 [] ch = "6" -> 54 [] ch = "7" -> 55
      [] ch = "8" -> 56 [] ch = "9" -> 57
      [] ch = "a" -> 97 [] ch = "b" -> 98 [] ch = "c" -> 99 [] ch = "d" -> 100
      [] ch = "e" -> 101 [] ch = "g" -> 103 [] ch = "n" -> 110
      [] ch = "o" -> 111 [] ch = "r" -> 114 [] ch = "|" -> 124
      [] OTHER -> 0

RECURSIVE LexLess(_, _)
LexLess(s, t) ==
    IF s = <<>> THEN t # <<>>
    ELSE IF t = <<>> THEN FALSE
    ELSE IF Code(Head(s)) # Code(Head(t)) THEN Code(Head(s)) < Code(Head(t))
    ELSE LexLess(Tail(s), Tail(t))

RECURSIVE InsertSorted(_, _)
InsertSorted(x, sorted) ==
    IF sorted = <<>> THEN <<x>>
    ELSE IF LexLess(x, Head(sorted)) THEN <<x>> \o sorted
    ELSE <<Head(sorted)>> \o InsertSorted(x, Tail(sorted))

RECURSIVE SortStrings(_)
SortStrings(strs) ==
    IF strs = <<>> THEN <<>>
    ELSE InsertSorted(Head(strs), SortStrings(Tail(strs)))

RECURSIVE Join(_, _)
Join(strs, sep) ==
    IF strs = <<>> THEN <<>>
    ELSE IF Len(strs) = 1 THEN Head(strs)
    ELSE Head(strs) \o <<sep>> \o Join(Tail(strs), sep)

Digits == <<"0", "1", "2", "3", "4", "5", "6", "7", "8", "9">>

RECURSIVE NumStr(_)
NumStr(n) == IF n < 10 THEN <<Digits[n + 1]>>
             ELSE NumStr(n \div 10) \o <<Digits[(n % 10) + 1]>>

MapSeq(f(_), s) == [i \in 1..Len(s) |-> f(s[i])]

Range(s) == {s[i] : i \in 1..Len(s)}

-----------------------------------------------------------------------------
(* Connection Type Registry                                                *)

ConnectionType == {"reports-to", "collaborates", "funds", "advises"}

CONNECTION_TYPES ==
    [t \in ConnectionType |->
        CASE t = "reports-to"   -> [color |-> "#1976d2", animated |-> FALSE]
          [] t = "collaborates" -> [color |-> "#16a34a", animated |-> TRUE]
          [] t = "funds"        -> [color |-> "#d97706", animated |-> FALSE]
          [] t = "advises"      -> [color |-> "#9333ea", animated |-> TRUE]]

(* The types a user picks in the explored gestures. *)
TypeChoices == {"reports-to", "funds"}

(* Handle ids of an OrgNode that gestures start from and end at. *)
SourceHandles == {"bottom-source"}
TargetHandles == {"top-target"}
NoHandle == ""

NoId == <<>>

(* The operation delivered last: handler, its arguments (two ids and a     *)
(* type or tag), the edge it was raised on, and how the handler ended.     *)
Op(op, a, b, t) == [t |-> t, op |-> op, a |-> a, b |-> b, e |-> NoId, r |-> "ok"]
Outcome(o, r) == [o EXCEPT !.r = r]
OnEdge(o, id) == [o EXCEPT !.e = id]
Call(cb, a, b, t) == [t |-> t, a |-> a, b |-> b, cb |-> cb]

-----------------------------------------------------------------------------
(* Layout solver (dagre), reduced to a deterministic placement: a node's   *)
(* file is its index in the node array, its rank the number of distinct    *)
(* other nodes with an edge into it.                                       *)

NODE_WIDTH == 260
NODE_HEIGHT == 100
NODESEP == 60
RANKSEP == 90

IndexOf(id, ns) == CHOOSE i \in 1..Len(ns) : ns[i].id = id /\ \A j \in 1..(i - 1) : ns[j].id # id

RankOf(id, es) ==
    Cardinality({es[i].source : i \in {k \in 1..Len(es) : es[k].target = id /\ es[k].source # id}})

DagreCentre(id, ns, es, dir) ==
    LET order == IndexOf(id, ns) - 1
        rank == RankOf(id, es)
    IN IF dir = "TB"
       THEN <<(NODE_WIDTH \div 2) + order * (NODE_WIDTH + NODESEP),
              (NODE_HEIGHT \div 2) + rank * (NODE_HEIGHT + RANKSEP)>>
       ELSE <<(NODE_WIDTH \div 2) + rank * (NODE_WIDTH + RANKSEP),
              (NODE_HEIGHT \div 2) + order * (NODE_HEIGHT + NODESEP)>>

getLayoutedNodes(ns, es, dir) ==
    [i \in 1..Len(ns) |->
        LET p == DagreCentre(ns[i].id, ns, es, dir)
        IN [ns[i] EXCEPT !.position = <<p[1] - NODE_WIDTH \div 2, p[2] - NODE_HEIGHT \div 2>>]]

-----------------------------------------------------------------------------
(* Edge ids                                                                *)

(* `e-${source}-${target}-${type}` *)
EdgeId(s, t, type) == <<"e", "-">> \o s \o <<"-">> \o t \o <<"-", type>>

(* getEdgeId of the rendering library: `xy-edge__${source}${sourceHandle}-${target}${targetHandle}` *)
XyEdgeId(c) ==
    <<"xy-edge__">> \o c.source \o (IF c.sourceHandle = NoHandle THEN <<>> ELSE <<c.sourceHandle>>)
        \o <<"-">> \o c.target \o (IF c.targetHandle = NoHandle THEN <<>> ELSE <<c.targetHandle>>)

NodeIds(ns) == {ns[i].id : i \in 1..Len(ns)}
EdgeIds(es) == {es[i].id : i \in 1..Len(es)}

-----------------------------------------------------------------------------
(* Rendering-library helpers used by the self-managed widget               *)

Connection(s, t, sh, th) == [source |-> s, target |-> t, sourceHandle |-> sh, targetHandle |-> th]

RFEdge(id, s, t, sh, th, type, styleOf) ==
    [animated |-> CONNECTION_TYPES[styleOf].animated, id |-> id, source |-> s, target |-> t,
     sourceHandle |-> sh, targetHandle |-> th, connectionType |-> type,
     stroke |-> CONNECTION_TYPES[styleOf].color]

connectionExists(edge, es) ==
    \E i \in 1..Len(es) :
        /\ es[i].source = edge.source
        /\ es[i].target = edge.target
        /\ es[i].sourceHandle = edge.sourceHandle
        /\ es[i].targetHandle = edge.targetHandle

addEdge(edge, es) ==
    IF edge.source = NoId \/ edge.target = NoId THEN es
    ELSE IF connectionExists(edge, es) THEN es
    ELSE Append(es, edge)

reconnectEdge(oldEdge, newConnection, es) ==
    IF newConnection.source = NoId \/ newConnection.target = NoId THEN es
    ELSE IF ~ \E i \in 1..Len(es) : es[i].id = oldEdge.id THEN es
    ELSE SelectSeq(es, LAMBDA e : e.id # oldEdge.id)
            \o <<[oldEdge EXCEPT !.id = XyEdgeId(newConnection),
                                 !.source = newConnection.source,
                                 !.target = newConnection.target,
                                 !.sourceHandle = newConnection.sourceHandle,
                                 !.targetHandle = newConnection.targetHandle]>>

-----------------------------------------------------------------------------
(* Converters of the self-managed widget                                   *)

RFNode(id, label, description, position) ==
    [id |-> id, position |-> position, label |-> label, description |-> description]

toRFNodes(inputs) ==
    [i \in 1..Len(inputs) |-> RFNode(inputs[i].id, inputs[i].label, inputs[i].description, <<0, 0>>)]

toRFEdges(inputs) ==
    [i \in 1..Len(inputs) |->
        RFEdge(inputs[i].id, inputs[i].source, inputs[i].target, NoHandle, NoHandle,
               inputs[i].connectionType, inputs[i].connectionType)]

-----------------------------------------------------------------------------
(* Subtree traversal of handleDelete.  The recursion has no visited set;   *)
(* a call chain deeper than StackLimit frames ends in a RangeError.        *)

StackLimit == 6

RECURSIVE getDescendants(_, _, _)
RECURSIVE reduceChildren(_, _, _, _)

reduceChildren(childIds, acc, allEdges, depth) ==
    IF childIds = <<>> THEN [overflow |-> FALSE, ids |-> acc]
    ELSE LET sub == getDescendants(Head(childIds), allEdges, depth + 1)
         IN IF sub.overflow THEN [overflow |-> TRUE, ids |-> <<>>]
            ELSE reduceChildren(Tail(childIds), acc \o <<Head(childIds)>> \o sub.ids, allEdges, depth)

getDescendants(id, allEdges, depth) ==
    IF depth > StackLimit THEN [overflow |-> TRUE, ids |-> <<>>]
    ELSE LET outgoing == SelectSeq(allEdges, LAMBDA e : e.source = id)
             childIds == [i \in 1..Len(outgoing) |-> outgoing[i].target]
         IN reduceChildren(childIds, <<>>, allEdges, depth)

-----------------------------------------------------------------------------
(* Inputs                                                                  *)

Undefined == "<undefined>"
Names == {"x"}
Descriptions == {"", "d"}

NodeInput(id, label, description) == [id |-> id, label |-> label, description |-> description]
EdgeInput(id, s, t, type) == [id |-> id, source |-> s, target |-> t, connectionType |-> type]

A == <<"a">>
B == <<"b">>
C == <<"c">>

DemoNodes == <<NodeInput(A, "A", "da"), NodeInput(B, "B", Undefined), NodeInput(C, "C", "dc")>>

(* Graphs handed to the widget at construction: ids unique, no self-loop,  *)
(* no duplicate triple, every endpoint a node.                             *)
DemoEdgeSets ==
    { <<EdgeInput(<<"e", "1">>, A, B, "reports-to"), EdgeInput(<<"e", "2">>, B, C, "reports-to")>>,
      <<EdgeInput(<<"e", "1">>, A, B, "reports-to"), EdgeInput(<<"e", "2">>, A, B, "funds")>> }

IsEdited(n) == n.label \in Names
EditBudgetLeft(ns, id) ==
    \/ \E i \in 1..Len(ns) : ns[i].id = id /\ IsEdited(ns[i])
    \/ Cardinality({i \in 1..Len(ns) : IsEdited(ns[i])}) < MaxEdits

Connections(ids) ==
    {Connection(s, t, sh, th) : s \in ids, t \in ids, sh \in SourceHandles, th \in TargetHandles}

-----------------------------------------------------------------------------
(* Self-managed widget (OrgNetworkFlow)                                    *)

IsFlow == widget = "OrgNetworkFlow"

(* One user operation is delivered to the mounted widget; the readOnly    *)
(* prop is the one given at mount.                                         *)
Budget == steps < MaxSteps /\ steps' = steps + 1 /\ readOnly' = readOnly

(* A step of a model that does not follow the canvas's local state. *)
Deliver == Budget /\ UNCHANGED <<localNodes, localEdges, effectsPending>>

(* The modal overlay covers the canvas; a mousedown outside the type picker *)
(* cancels it before any other pointer action is delivered.                *)
CanvasFree == modalState = <<>>
PanelsFree == modalState = <<>> /\ pendingConnection = <<>>

selectedEdge == SelectSeq(edges, LAMBDA e : e.id = selectedEdgeId)
selectedNode == SelectSeq(nodes, LAMBDA n : n.id = selectedNodeId)

FlowNodeClick(id) ==
    /\ IsFlow
    /\ Deliver
    /\ solverRan' = FALSE
    /\ PanelsFree
    /\ id \in NodeIds(nodes)
    /\ selectedNodeId' = id
    /\ selectedEdgeId' = NoId
    /\ calls' = <<Call("onNodeSelect", id, NoId, "")>>
    /\ lastOp' = Op("onNodeClick", id, NoId, "")
    /\ UNCHANGED <<widget, graphVars, direction, pendingConnection, modalState, now, prevStructureKey, cachedLayout, rfData>>

FlowPaneClick ==
    /\ IsFlow
    /\ Deliver
    /\ solverRan' = FALSE
    /\ CanvasFree
    /\ selectedNodeId' = NoId
    /\ selectedEdgeId' = NoId
    /\ pendingConnection' = <<>>
    /\ calls' = <<Call("onNodeSelect", NoId, NoId, "")>>
    /\ lastOp' = Op("onPaneClick", NoId, NoId, "")
    /\ UNCHANGED <<widget, graphVars, direction, modalState, now, prevStructureKey, cachedLayout, rfData>>

FlowEdgeClick(i) ==
    /\ IsFlow
    /\ Deliver
    /\ solverRan' = FALSE
    /\ PanelsFree
    /\ i \in 1..Len(edges)
    /\ selectedEdgeId' = edges[i].id
    /\ selectedNodeId' = NoId
    /\ calls' = <<Call("onEdgeSelect", edges[i].id, NoId, "")>>
    /\ lastOp' = OnEdge(Op("onEdgeClick", NoId, NoId, ""), edges[i].id)
    /\ UNCHANGED <<widget, graphVars, direction, pendingConnection, modalState, now, prevStructureKey, cachedLayout, rfData>>

(* setPendingConnection({connection, position}): the state holds the new   *)
(* gesture in place of whatever it held.                                   *)
keepFirstGesture(pending, c) == IF pending # <<>> THEN pending ELSE <<c>>
startGesture(pending, c) == <<c>>

(* Tag of an onConnect delivered while a gesture is awaiting its type. *)
GestureTag == IF pendingConnection # <<>> THEN "superseding" ELSE ""

FlowConnect(c) ==
    /\ IsFlow
    /\ Deliver
    /\ ~readOnly
    /\ solverRan' = FALSE
    /\ CanvasFree
    /\ c \in Connections(NodeIds(nodes))
    /\ calls' = <<>>
    /\ IF c.source = c.target
       THEN /\ lastOp' = Outcome(Op("onConnect", c.source, c.target, GestureTag), "self")
            /\ UNCHANGED pendingConnection
       ELSE /\ lastOp' = Op("onConnect", c.source, c.target, GestureTag)
            /\ pendingConnection' = startGesture(pendingConnection, c)
    /\ UNCHANGED <<widget, graphVars, direction, modalState, selectedNodeId, selectedEdgeId, now, prevStructureKey, cachedLayout, rfData>>

(* onSelect of the type picker.  The handler returns at once when the      *)
(* state holds no gesture (a picker that a cancel has already closed).     *)
FlowConnectionTypeSelect(type) ==
    /\ IsFlow
    /\ Deliver
    /\ solverRan' = FALSE
    /\ CanvasFree
    /\ type \in TypeChoices
    /\ IF pendingConnection = <<>>
       THEN /\ calls' = <<>>
            /\ lastOp' = Outcome(Op("handleConnectionTypeSelect", NoId, NoId, type), "idle")
            /\ UNCHANGED <<edges, pendingConnection>>
       ELSE LET connection == pendingConnection[1]
                duplicateExists ==
                    \E i \in 1..Len(edges) :
                        /\ edges[i].source = connection.source
                        /\ edges[i].target = connection.target
                        /\ edges[i].connectionType = type
                newEdge == RFEdge(EdgeId(connection.source, connection.target, type),
                                  connection.source, connection.target,
                                  connection.sourceHandle, connection.targetHandle, type, type)
                op == Op("handleConnectionTypeSelect", connection.source, connection.target, type)
            IN IF duplicateExists
               THEN /\ pendingConnection' = <<>>
                    /\ calls' = <<>>
                    /\ lastOp' = Outcome(op, "duplicate")
                    /\ UNCHANGED edges
               ELSE /\ Len(edges) < MaxEdges
                    /\ edges' = addEdge(newEdge, edges)
                    /\ calls' = <<Call("onChange", NoId, NoId, ""),
                                  Call("onEdgeConnect", connection.source, connection.target, type)>>
                    /\ lastOp' = op
                    /\ pendingConnection' = <<>>
    /\ UNCHANGED <<widget, nodes, direction, modalState, selectedNodeId, selectedEdgeId, now, prevStructureKey, cachedLayout, rfData>>

(* What handleConnectionCancel stores: setPendingConnection(null). *)
heldGesture(pending) == pending
cancelledGesture(pending) == <<>>

FlowConnectionCancel ==
    /\ IsFlow
    /\ Deliver
    /\ solverRan' = FALSE
    /\ pendingConnection # <<>>
    /\ pendingConnection' = cancelledGesture(pendingConnection)
    /\ calls' = <<>>
    /\ lastOp' = Op("handleConnectionCancel", NoId, NoId, "")
    /\ UNCHANGED <<widget, graphVars, direction, modalState, selectedNodeId, selectedEdgeId, now, prevStructureKey, cachedLayout, rfData>>

(* The events of a widget arise only while it is the one mounted. *)
Mounted(w, S) == IF widget = w THEN S ELSE {}

ReconnectInputs(e, ids) ==
    {Connection(s, e.target, sh, e.targetHandle) : s \in ids, sh \in SourceHandles}
        \cup {Connection(e.source, t, e.sourceHandle, th) : t \in ids, th \in TargetHandles}

(* Style of the moved edge after onReconnect. *)
styleReconnected(e, connType) ==
    [e EXCEPT !.stroke = CONNECTION_TYPES[connType].color,
              !.animated = CONNECTION_TYPES[connType].animated,
              !.connectionType = connType]
resetReconnected(e, connType) ==
    [e EXCEPT !.id = EdgeId(e.source, e.target, "reports-to"),
              !.stroke = CONNECTION_TYPES["reports-to"].color,
              !.animated = CONNECTION_TYPES["reports-to"].animated,
              !.connectionType = "reports-to"]
restyleReconnected(e, connType) ==
    [e EXCEPT !.id = EdgeId(e.source, e.target, connType),
              !.stroke = CONNECTION_TYPES[connType].color,
              !.animated = CONNECTION_TYPES[connType].animated,
              !.connectionType = connType]

FlowReconnect(i, newConnection) ==
    /\ IsFlow
    /\ Deliver
    /\ ~readOnly
    /\ solverRan' = FALSE
    /\ PanelsFree
    /\ i \in 1..Len(edges)
    /\ newConnection \in ReconnectInputs(edges[i], NodeIds(nodes))
    /\ LET oldEdge == edges[i]
           connType == oldEdge.connectionType
           duplicateExists ==
               \E k \in 1..Len(edges) :
                   /\ edges[k].id # oldEdge.id
                   /\ edges[k].source = newConnection.source
                   /\ edges[k].target = newConnection.target
                   /\ edges[k].connectionType = connType
           updated == reconnectEdge(oldEdge, newConnection, edges)
           finalEdges ==
               [k \in 1..Len(updated) |->
                   IF /\ updated[k].source = newConnection.source
                      /\ updated[k].target = newConnection.target
                      /\ ~ \E o \in 1..Len(edges) :
                              /\ edges[o].id = updated[k].id
                              /\ edges[o].source = updated[k].source
                              /\ edges[o].target = updated[k].target
                   THEN restyleReconnected(updated[k], connType)
                   ELSE updated[k]]
           op == OnEdge(Op("onReconnect", newConnection.source, newConnection.target, connType), oldEdge.id)
       IN IF newConnection.source = newConnection.target
          THEN /\ lastOp' = Outcome(op, "self")
               /\ calls' = <<>>
               /\ UNCHANGED edges
          ELSE IF duplicateExists
          THEN /\ lastOp' = Outcome(op, "duplicate")
               /\ calls' = <<>>
               /\ UNCHANGED edges
          ELSE /\ lastOp' = op
               /\ edges' = finalEdges
               /\ calls' = <<Call("onChange", NoId, NoId, "")>>
    /\ UNCHANGED <<widget, nodes, direction, uiVars, now, prevStructureKey, cachedLayout, rfData>>

(* Raised from the edge detail panel, which shows selectedEdge and         *)
(* disables the option of the current type.                                *)
FlowEdgeTypeChange(newType) ==
    /\ IsFlow
    /\ Deliver
    /\ ~readOnly
    /\ solverRan' = FALSE
    /\ PanelsFree
    /\ newType \in TypeChoices
    /\ selectedEdge # <<>>
    /\ newType # selectedEdge[1].connectionType
    /\ LET edgeId == selectedEdge[1].id
           updated ==
               [k \in 1..Len(edges) |->
                   IF edges[k].id # edgeId THEN edges[k]
                   ELSE [edges[k] EXCEPT !.id = EdgeId(edges[k].source, edges[k].target, newType),
                                         !.animated = CONNECTION_TYPES[newType].animated,
                                         !.stroke = CONNECTION_TYPES[newType].color,
                                         !.connectionType = newType]]
           found == SelectSeq(edges, LAMBDA e : e.id = edgeId)
       IN /\ edges' = updated
          /\ calls' = <<Call("onChange", NoId, NoId, ""), Call("onEdgeTypeChange", edgeId, NoId, newType)>>
          /\ selectedEdgeId' =
                IF selectedEdgeId = edgeId /\ found # <<>>
                THEN EdgeId(found[1].source, found[1].target, newType)
                ELSE selectedEdgeId
          /\ lastOp' = OnEdge(Op("handleEdgeTypeChange", NoId, NoId, newType), edgeId)
    /\ UNCHANGED <<widget, nodes, direction, pendingConnection, modalState, selectedNodeId, now, prevStructureKey, cachedLayout, rfData>>

FlowAddChild(parentId) ==
    /\ IsFlow
    /\ Deliver
    /\ ~readOnly
    /\ solverRan' = FALSE
    /\ PanelsFree
    /\ parentId \in NodeIds(nodes)
    /\ modalState' = <<[id |-> parentId, mode |-> "add"]>>
    /\ calls' = <<>>
    /\ lastOp' = Op("handleAddChild", parentId, NoId, "")
    /\ UNCHANGED <<widget, graphVars, direction, pendingConnection, selectedNodeId, selectedEdgeId, now, prevStructureKey, cachedLayout, rfData>>

FlowEdit(nodeId) ==
    /\ IsFlow
    /\ Deliver
    /\ ~readOnly
    /\ solverRan' = FALSE
    /\ PanelsFree
    /\ nodeId \in NodeIds(nodes)
    /\ modalState' = <<[id |-> nodeId, mode |-> "edit"]>>
    /\ calls' = <<>>
    /\ lastOp' = Op("handleEdit", nodeId, NoId, "")
    /\ UNCHANGED <<widget, graphVars, direction, pendingConnection, selectedNodeId, selectedEdgeId, now, prevStructureKey, cachedLayout, rfData>>

FlowModalCancel ==
    /\ IsFlow
    /\ Deliver
    /\ ~readOnly
    /\ solverRan' = FALSE
    /\ modalState # <<>>
    /\ modalState' = <<>>
    /\ calls' = <<>>
    /\ lastOp' = Op("modalCancel", NoId, NoId, "")
    /\ UNCHANGED <<widget, graphVars, direction, pendingConnection, selectedNodeId, selectedEdgeId, now, prevStructureKey, cachedLayout, rfData>>

OrUndefined(description) == IF description = "" THEN Undefined ELSE description

FlowModalConfirm(name, description) ==
    /\ IsFlow
    /\ Deliver
    /\ ~readOnly
    /\ name \in Names
    /\ description \in Descriptions
    /\ modalState # <<>>
    /\ IF modalState[1].mode = "add"
       THEN LET parentId == modalState[1].id
                newId == <<"o", "r", "g", "-">> \o NumStr(now)
                newNode == RFNode(newId, name, OrUndefined(description), <<0, 0>>)
                newEdge == RFEdge(EdgeId(parentId, newId, "reports-to"), parentId, newId,
                                  NoHandle, NoHandle, "reports-to", "reports-to")
                allNodes == Append(nodes, newNode)
                allEdges == Append(edges, newEdge)
            IN /\ Len(nodes) < MaxNodes
               /\ solverRan' = TRUE
               /\ Len(edges) < MaxEdges
               /\ nodes' = getLayoutedNodes(allNodes, allEdges, direction)
               /\ edges' = allEdges
               /\ calls' = <<Call("onNodeAdd", parentId, NoId, name), Call("onChange", NoId, NoId, "")>>
               /\ lastOp' = Op("handleModalConfirm", parentId, newId, "add")
       ELSE LET nodeId == modalState[1].id
                updatedNodes ==
                    [k \in 1..Len(nodes) |->
                        IF nodes[k].id = nodeId
                        THEN [nodes[k] EXCEPT !.label = name, !.description = OrUndefined(description)]
                        ELSE nodes[k]]
            IN /\ EditBudgetLeft(nodes, nodeId)
               /\ solverRan' = FALSE
               /\ nodes' = updatedNodes
               /\ calls' = <<Call("onNodeEdit", nodeId, NoId, name), Call("onChange", NoId, NoId, "")>>
               /\ lastOp' = Op("handleModalConfirm", nodeId, NoId, "edit")
               /\ UNCHANGED edges
    /\ modalState' = <<>>
    /\ UNCHANGED <<widget, direction, pendingConnection, selectedNodeId, selectedEdgeId, now, prevStructureKey, cachedLayout, rfData>>

FlowDelete(nodeId) ==
    /\ IsFlow
    /\ Deliver
    /\ ~readOnly
    /\ PanelsFree
    /\ nodeId \in NodeIds(nodes)
    /\ LET walk == getDescendants(nodeId, edges, 1)
           idsToDelete == {nodeId} \cup Range(walk.ids)
           remainingNodes == SelectSeq(nodes, LAMBDA n : n.id \notin idsToDelete)
           remainingEdges == SelectSeq(edges, LAMBDA e : e.source \notin idsToDelete /\ e.target \notin idsToDelete)
       IN IF walk.overflow
          THEN /\ lastOp' = Outcome(Op("handleDelete", nodeId, NoId, ""), "RangeError")
               /\ calls' = <<>>
               /\ solverRan' = FALSE
               /\ UNCHANGED <<nodes, edges, selectedNodeId>>
          ELSE /\ nodes' = getLayoutedNodes(remainingNodes, remainingEdges, direction)
               /\ solverRan' = TRUE
               /\ edges' = remainingEdges
               /\ selectedNodeId' = IF selectedNodeId \in idsToDelete THEN NoId ELSE selectedNodeId
               /\ calls' = <<Call("onNodeDelete", nodeId, NoId, ""), Call("onChange", NoId, NoId, "")>>
               /\ lastOp' = Op("handleDelete", nodeId, NoId, "")
    /\ UNCHANGED <<widget, direction, pendingConnection, modalState, selectedEdgeId, now, prevStructureKey, cachedLayout, rfData>>

(* The edges handleDeleteEdge stores: the filter runs only inside          *)
(* `if (window.confirm(...))`.                                             *)
deleteUnasked(es, edgeId, confirmed) == SelectSeq(es, LAMBDA e : e.id # edgeId)
deleteIfConfirmed(es, edgeId, confirmed) ==
    IF confirmed THEN SelectSeq(es, LAMBDA e : e.id # edgeId) ELSE es

(* Raised from the edge detail panel; window.confirm answers `confirmed`.  *)
FlowDeleteEdge(confirmed) ==
    /\ IsFlow
    /\ Deliver
    /\ ~readOnly
    /\ solverRan' = FALSE
    /\ PanelsFree
    /\ confirmed \in BOOLEAN
    /\ selectedEdge # <<>>
    /\ LET edgeId == selectedEdge[1].id
       IN /\ edges' = deleteIfConfirmed(edges, edgeId, confirmed)
          /\ IF confirmed
             THEN /\ calls' = <<Call("onChange", NoId, NoId, "")>>
                  /\ selectedEdgeId' = NoId
                  /\ lastOp' = OnEdge(Op("handleDeleteEdge", NoId, NoId, ""), edgeId)
             ELSE /\ calls' = <<>>
                  /\ lastOp' = Outcome(OnEdge(Op("handleDeleteEdge", NoId, NoId, ""), edgeId), "declined")
                  /\ UNCHANGED selectedEdgeId
    /\ UNCHANGED <<widget, nodes, direction, pendingConnection, modalState, selectedNodeId, now, prevStructureKey, cachedLayout, rfData>>

(* A remove change raised by the canvas for the node selected on it (the   *)
(* delete key).  onNodesChange is wired whatever readOnly is and applies   *)
(* the change to `nodes`; the changes for the node's edges go to           *)
(* onEdgesChange, which is wired only when readOnly is false.  The canvas  *)
(* listens for the key on the document, so an open picker or modal does    *)
(* not keep it away (a text input swallows it only while it has focus).    *)
FlowNodesChange(id) ==
    /\ IsFlow
    /\ Deliver
    /\ id \in NodeIds(nodes)
    /\ id = selectedNodeId
    /\ nodes' = SelectSeq(nodes, LAMBDA n : n.id # id)
    /\ edges' = IF readOnly THEN edges
                ELSE SelectSeq(edges, LAMBDA e : e.source # id /\ e.target # id)
    /\ calls' = <<>>
    /\ lastOp' = Op("onNodesChange", id, NoId, "remove")
    /\ solverRan' = FALSE
    /\ UNCHANGED <<widget, direction, uiVars, now, prevStructureKey, cachedLayout, rfData>>

(* A remove change raised by the canvas for the edge selected on it. *)
FlowEdgesChange(i) ==
    /\ IsFlow
    /\ Deliver
    /\ ~readOnly
    /\ i \in 1..Len(edges)
    /\ edges[i].id = selectedEdgeId
    /\ edges' = SelectSeq(edges, LAMBDA e : e.id # edges[i].id)
    /\ calls' = <<>>
    /\ lastOp' = OnEdge(Op("onEdgesChange", edges[i].source, edges[i].target, "remove"), edges[i].id)
    /\ solverRan' = FALSE
    /\ UNCHANGED <<widget, nodes, direction, uiVars, now, prevStructureKey, cachedLayout, rfData>>

(* The wall clock read by Date.now(). *)
Tick ==
    /\ Deliver
    /\ now < MaxClock
    /\ now' = now + 1
    /\ calls' = <<>>
    /\ lastOp' = Op("tick", NoId, NoId, "")
    /\ solverRan' = FALSE
    /\ UNCHANGED <<widget, graphVars, direction, uiVars, prevStructureKey, cachedLayout, rfData>>

-----------------------------------------------------------------------------
(* Controlled widget with the connection-type picker (OrgNetworkflow2) and *)
(* its owner App2.  `nodes` and `edges` are App2's state, handed down as   *)
(* props; edges carry no id, the widget derives one per render.  The       *)
(* widget renders no detail panel and injects no callbacks into the node   *)
(* data, so it raises only selection, connect and picker events.           *)

IsApp2 == widget = "OrgNetworkflow2"

OrgInput(id, label, description, memberCount) ==
    [id |-> id, label |-> label, description |-> description, memberCount |-> memberCount]

EdgeProp(s, t, type) == [source |-> s, target |-> t, connectionType |-> type]

derivedEdgeId(e) == EdgeId(e.source, e.target, e.connectionType)

(* toRFNodes / toRFEdges of the controlled widgets *)
toRFNodesControlled(inputs) ==
    [i \in 1..Len(inputs) |->
        [id |-> inputs[i].id, position |-> <<0, 0>>, label |-> inputs[i].label,
         description |-> inputs[i].description, memberCount |-> inputs[i].memberCount]]

toRFEdgesControlled(inputs) ==
    [i \in 1..Len(inputs) |->
        RFEdge(derivedEdgeId(inputs[i]), inputs[i].source, inputs[i].target, NoHandle, NoHandle,
               inputs[i].connectionType, inputs[i].connectionType)]

toSimplifiedEdgesControlled(rfEdges) ==
    [i \in 1..Len(rfEdges) |-> EdgeProp(rfEdges[i].source, rfEdges[i].target, rfEdges[i].connectionType)]

toSimplifiedNodesControlled(rfNodes) ==
    [i \in 1..Len(rfNodes) |->
        OrgInput(rfNodes[i].id, rfNodes[i].label, rfNodes[i].description, rfNodes[i].memberCount)]

App2NodeClick(id) ==
    /\ IsApp2
    /\ Deliver
    /\ PanelsFree
    /\ id \in NodeIds(nodes)
    /\ selectedNodeId' = id
    /\ calls' = <<Call("onNodeSelect", id, NoId, "")>>
    /\ lastOp' = Op("onNodeClick", id, NoId, "")
    /\ solverRan' = FALSE
    /\ UNCHANGED <<widget, graphVars, direction, pendingConnection, modalState, selectedEdgeId, now,
                   prevStructureKey, cachedLayout, rfData>>

App2PaneClick ==
    /\ IsApp2
    /\ Deliver
    /\ PanelsFree
    /\ selectedNodeId' = NoId
    /\ selectedEdgeId' = NoId
    /\ calls' = <<Call("onNodeSelect", NoId, NoId, ""), Call("onEdgeSelect", NoId, NoId, "")>>
    /\ lastOp' = Op("onPaneClick", NoId, NoId, "")
    /\ solverRan' = FALSE
    /\ UNCHANGED <<widget, graphVars, direction, pendingConnection, modalState, now,
                   prevStructureKey, cachedLayout, rfData>>

App2EdgeClick(i) ==
    /\ IsApp2
    /\ Deliver
    /\ PanelsFree
    /\ i \in 1..Len(edges)
    /\ selectedEdgeId' = derivedEdgeId(edges[i])
    /\ calls' = <<Call("onEdgeSelect", derivedEdgeId(edges[i]), NoId, "")>>
    /\ lastOp' = OnEdge(Op("onEdgeClick", NoId, NoId, ""), derivedEdgeId(edges[i]))
    /\ solverRan' = FALSE
    /\ UNCHANGED <<widget, graphVars, direction, pendingConnection, modalState, selectedNodeId, now,
                   prevStructureKey, cachedLayout, rfData>>

(* onConnect: only a missing endpoint or readOnly is refused. *)
App2Connect(c) ==
    /\ IsApp2
    /\ Deliver
    /\ CanvasFree
    /\ c \in Connections(NodeIds(nodes))
    /\ pendingConnection' = <<c>>
    /\ calls' = <<>>
    /\ lastOp' = Op("onConnect", c.source, c.target, GestureTag)
    /\ solverRan' = FALSE
    /\ UNCHANGED <<widget, graphVars, direction, modalState, selectedNodeId, selectedEdgeId, now,
                   prevStructureKey, cachedLayout, rfData>>

(* App2.handleEdgeConnect *)
handleEdgeConnect(es, source, target, type) == Append(es, EdgeProp(source, target, type))

App2ConnectionTypeSelect(type) ==
    /\ IsApp2
    /\ Deliver
    /\ type \in TypeChoices
    /\ pendingConnection # <<>>
    /\ Len(edges) < MaxEdges
    /\ LET connection == pendingConnection[1]
       IN /\ edges' = handleEdgeConnect(edges, connection.source, connection.target, type)
          /\ calls' = <<Call("onEdgeConnect", connection.source, connection.target, type)>>
          /\ lastOp' = Op("handleConnectionTypeSelect", connection.source, connection.target, type)
    /\ pendingConnection' = <<>>
    /\ solverRan' = TRUE
    /\ UNCHANGED <<widget, nodes, direction, modalState, selectedNodeId, selectedEdgeId, now,
                   prevStructureKey, cachedLayout, rfData>>

App2ConnectionCancel ==
    /\ IsApp2
    /\ Deliver
    /\ pendingConnection # <<>>
    /\ pendingConnection' = <<>>
    /\ calls' = <<>>
    /\ lastOp' = Op("handleConnectionCancel", NoId, NoId, "")
    /\ solverRan' = FALSE
    /\ UNCHANGED <<widget, graphVars, direction, modalState, selectedNodeId, selectedEdgeId, now,
                   prevStructureKey, cachedLayout, rfData>>

-----------------------------------------------------------------------------
(* Controlled widget that reports every change through onChange, with the  *)
(* owner of the README example: handleGraphChange stores both arrays.      *)
(* The owner passes no selection or node callbacks.                        *)

IsOnChange == widget = "onChangeWidget"

DragPositions == {<<0, 0>>, <<40, 70>>}

(* handleNodesChange for a position change of node id: the moved node list *)
(* is simplified (position dropped) and handed to the owner.               *)
OnChangeNodesChange(id, position) ==
    /\ IsOnChange
    /\ Deliver
    /\ id \in NodeIds(nodes)
    /\ position \in DragPositions
    /\ LET current == getLayoutedNodes(toRFNodesControlled(nodes), toRFEdgesControlled(edges), direction)
           updated == [k \in 1..Len(current) |->
                          IF current[k].id = id THEN [current[k] EXCEPT !.position = position]
                          ELSE current[k]]
       IN /\ nodes' = toSimplifiedNodesControlled(updated)
          /\ calls' = <<Call("onChange", NoId, NoId, "")>>
    /\ lastOp' = Op("handleNodesChange", id, NoId, "position")
    /\ solverRan' = TRUE
    /\ UNCHANGED <<widget, edges, direction, uiVars, now, prevStructureKey, cachedLayout, rfData>>

OnChangeConnect(c) ==
    /\ IsOnChange
    /\ Deliver
    /\ c \in Connections(NodeIds(nodes))
    /\ IF c.source = c.target
       THEN /\ calls' = <<>>
            /\ lastOp' = Outcome(Op("handleConnect", c.source, c.target, ""), "self")
            /\ solverRan' = FALSE
            /\ UNCHANGED edges
       ELSE /\ Len(edges) < MaxEdges
            /\ edges' = Append(edges, EdgeProp(c.source, c.target, "reports-to"))
            /\ calls' = <<Call("onChange", NoId, NoId, "")>>
            /\ lastOp' = Op("handleConnect", c.source, c.target, "")
            /\ solverRan' = TRUE
    /\ UNCHANGED <<widget, nodes, direction, uiVars, now, prevStructureKey, cachedLayout, rfData>>

OnChangeReconnect(i, connection) ==
    /\ IsOnChange
    /\ Deliver
    /\ i \in 1..Len(edges)
    /\ connection \in ReconnectInputs(toRFEdgesControlled(edges)[i], NodeIds(nodes))
    /\ LET rfEdges == toRFEdgesControlled(edges)
           oldEdge == rfEdges[i]
           updatedEdges ==
               [k \in 1..Len(rfEdges) |->
                   IF rfEdges[k].id = oldEdge.id
                   THEN [rfEdges[k] EXCEPT !.source = connection.source, !.target = connection.target]
                   ELSE rfEdges[k]]
       IN /\ edges' = toSimplifiedEdgesControlled(updatedEdges)
          /\ calls' = <<Call("onChange", NoId, NoId, "")>>
          /\ lastOp' = OnEdge(Op("onReconnect", connection.source, connection.target, oldEdge.connectionType),
                              oldEdge.id)
    /\ solverRan' = TRUE
    /\ UNCHANGED <<widget, nodes, direction, uiVars, now, prevStructureKey, cachedLayout, rfData>>

-----------------------------------------------------------------------------
(* Controlled widget with the structural-key layout cache and its owner    *)
(* App3.  `nodes` and `edges` are App3's state; the Add/Edit modal is      *)
(* App3's (addModalParentId, editModalNodeId).  Every action ends with the *)
(* render pass its state change causes.                                    *)

IsApp3 == widget = "orgNetworkWidget"

PositionedNode(id, label, description, position) ==
    [id |-> id, position |-> position, label |-> label, description |-> description]

HandleEdge(id, s, t, type, sh, th) ==
    [id |-> id, source |-> s, target |-> t, sourceHandle |-> sh, targetHandle |-> th,
     connectionType |-> type]

(* `${nk}|${ek}|${direction}` *)
structureKey(ns, es, dir) ==
    LET nk == Join(SortStrings([i \in 1..Len(ns) |-> ns[i].id]), ",")
        ek == Join(SortStrings([i \in 1..Len(es) |-> es[i].source \o <<"-">> \o es[i].target]), ",")
    IN nk \o <<"|">> \o ek \o <<"|", dir>>

layoutMap(layouted) ==
    [id \in NodeIds(layouted) |-> layouted[IndexOf(id, layouted)].position]

(* Position the pass gives a node when the key is the stored one: the     *)
(* node's own position unless that is the origin, then the cached one.     *)
resolvePosition(n, cache) ==
    IF n.position = <<0, 0>> /\ n.id \in DOMAIN cache THEN cache[n.id] ELSE n.position

(* A pass that lays out anew whatever the key. *)
layoutEveryPass(ns, es, dir, prevKey, cache) ==
    LET layouted == layoutMap(getLayoutedNodes(ns, es, dir))
    IN [cache |-> layouted, key |-> structureKey(ns, es, dir), ran |-> TRUE, shown |-> layouted]

(* The rfData memo: the solver runs only when the key differs from the one *)
(* of the previous layout, and then its output is what the pass returns.   *)
rfDataPass(ns, es, dir, prevKey, cache) ==
    LET key == structureKey(ns, es, dir)
        layouted == layoutMap(getLayoutedNodes(ns, es, dir))
    IN IF key # prevKey
       THEN [cache |-> layouted, key |-> key, ran |-> TRUE, shown |-> layouted]
       ELSE [cache |-> cache, key |-> prevKey, ran |-> FALSE,
             shown |-> [id \in NodeIds(ns) |-> resolvePosition(ns[IndexOf(id, ns)], cache)]]

(* Pass after the owner handed over new node or edge arrays. *)
App3Render ==
    LET pass == rfDataPass(nodes', edges', direction', prevStructureKey, cachedLayout)
    IN /\ prevStructureKey' = pass.key
       /\ cachedLayout' = pass.cache
       /\ rfData' = pass.shown
       /\ solverRan' = pass.ran

(* Pass with the arrays of the previous one: the memo returns what it held. *)
App3Memoised ==
    /\ UNCHANGED <<prevStructureKey, cachedLayout, rfData>>
    /\ solverRan' = FALSE

(* Nodes the widget hands to the canvas after the pass. *)
rfDataNodes ==
    [i \in 1..Len(nodes) |-> [nodes[i] EXCEPT !.position = rfData[nodes[i].id]]]

App3NodeClick(id) ==
    /\ IsApp3
    /\ Deliver
    /\ PanelsFree
    /\ id \in NodeIds(nodes)
    /\ selectedNodeId' = id
    /\ calls' = <<Call("onNodeSelect", id, NoId, "")>>
    /\ lastOp' = Op("onNodeClick", id, NoId, "")
    /\ UNCHANGED <<widget, graphVars, direction, pendingConnection, modalState, selectedEdgeId, now>>
    /\ App3Memoised

App3EdgeClick(i) ==
    /\ IsApp3
    /\ Deliver
    /\ PanelsFree
    /\ i \in 1..Len(edges)
    /\ selectedEdgeId' = edges[i].id
    /\ calls' = <<Call("onEdgeSelect", edges[i].id, NoId, "")>>
    /\ lastOp' = OnEdge(Op("onEdgeClick", NoId, NoId, ""), edges[i].id)
    /\ UNCHANGED <<widget, graphVars, direction, pendingConnection, modalState, selectedNodeId, now>>
    /\ App3Memoised

App3PaneClick ==
    /\ IsApp3
    /\ Deliver
    /\ PanelsFree
    /\ selectedNodeId' = NoId
    /\ selectedEdgeId' = NoId
    /\ calls' = <<Call("onNodeSelect", NoId, NoId, ""), Call("onEdgeSelect", NoId, NoId, "")>>
    /\ lastOp' = Op("onPaneClick", NoId, NoId, "")
    /\ UNCHANGED <<widget, graphVars, direction, pendingConnection, modalState, now>>
    /\ App3Memoised

(* handleNodeAdd / handleNodeEdit open App3's modal. *)
App3NodeAdd(parentId) ==
    /\ IsApp3
    /\ Deliver
    /\ PanelsFree
    /\ parentId \in NodeIds(nodes)
    /\ modalState' = <<[id |-> parentId, mode |-> "add"]>>
    /\ calls' = <<Call("onNodeAdd", parentId, NoId, "")>>
    /\ lastOp' = Op("handleNodeAdd", parentId, NoId, "")
    /\ UNCHANGED <<widget, graphVars, direction, pendingConnection, selectedNodeId, selectedEdgeId, now>>
    /\ App3Memoised

App3NodeEdit(nodeId) ==
    /\ IsApp3
    /\ Deliver
    /\ PanelsFree
    /\ nodeId \in NodeIds(nodes)
    /\ modalState' = <<[id |-> nodeId, mode |-> "edit"]>>
    /\ calls' = <<Call("onNodeEdit", nodeId, NoId, "")>>
    /\ lastOp' = Op("handleNodeEdit", nodeId, NoId, "")
    /\ UNCHANGED <<widget, graphVars, direction, pendingConnection, selectedNodeId, selectedEdgeId, now>>
    /\ App3Memoised

App3ModalCancel ==
    /\ IsApp3
    /\ Deliver
    /\ modalState # <<>>
    /\ modalState' = <<>>
    /\ calls' = <<>>
    /\ lastOp' = Op("modalCancel", NoId, NoId, "")
    /\ UNCHANGED <<widget, graphVars, direction, pendingConnection, selectedNodeId, selectedEdgeId, now>>
    /\ App3Memoised

App3AddConfirm(name, description) ==
    /\ IsApp3
    /\ Deliver
    /\ name \in Names
    /\ description \in Descriptions
    /\ modalState # <<>>
    /\ modalState[1].mode = "add"
    /\ Len(nodes) < MaxNodes
    /\ Len(edges) < MaxEdges
    /\ LET addModalParentId == modalState[1].id
           newId == <<"o", "r", "g", "-">> \o NumStr(now)
           newNode == PositionedNode(newId, name, description, <<0, 0>>)
           newEdge == HandleEdge(<<"e", "-">> \o NumStr(now), addModalParentId, newId,
                                 "reports-to", "bottom-source", "top-target")
       IN /\ nodes' = Append(nodes, newNode)
          /\ edges' = Append(edges, newEdge)
          /\ lastOp' = Op("handleAddConfirm", addModalParentId, newId, "")
    /\ modalState' = <<>>
    /\ calls' = <<>>
    /\ UNCHANGED <<widget, direction, pendingConnection, selectedNodeId, selectedEdgeId, now>>
    /\ App3Render

App3EditConfirm(name, description) ==
    /\ IsApp3
    /\ Deliver
    /\ name \in Names
    /\ description \in Descriptions
    /\ modalState # <<>>
    /\ modalState[1].mode = "edit"
    /\ LET editModalNodeId == modalState[1].id
       IN /\ EditBudgetLeft(nodes, editModalNodeId)
          /\ nodes' = [k \in 1..Len(nodes) |->
                          IF nodes[k].id = editModalNodeId
                          THEN [nodes[k] EXCEPT !.label = name, !.description = description]
                          ELSE nodes[k]]
          /\ lastOp' = Op("handleEditConfirm", editModalNodeId, NoId, "")
    /\ modalState' = <<>>
    /\ calls' = <<>>
    /\ UNCHANGED <<widget, edges, direction, pendingConnection, selectedNodeId, selectedEdgeId, now>>
    /\ App3Render

(* The filters of App3.handleNodeDelete *)
withoutNode(ns, nodeId) == SelectSeq(ns, LAMBDA n : n.id # nodeId)

withoutEdgesFrom(es, nodeId) == SelectSeq(es, LAMBDA e : e.source # nodeId)
withoutEdgesOf(es, nodeId) == SelectSeq(es, LAMBDA e : e.source # nodeId /\ e.target # nodeId)

(* Delete from the node's own button, or from the detail panel of the      *)
(* selected node, which also clears the selection.                         *)
App3NodeDelete(nodeId, fromPanel) ==
    /\ IsApp3
    /\ Deliver
    /\ PanelsFree
    /\ nodeId \in NodeIds(nodes)
    /\ fromPanel \in BOOLEAN
    /\ fromPanel => selectedNodeId = nodeId
    /\ nodes' = withoutNode(nodes, nodeId)
    /\ edges' = withoutEdgesOf(edges, nodeId)
    /\ selectedNodeId' = IF fromPanel THEN NoId ELSE selectedNodeId
    /\ calls' = <<Call("onNodeDelete", nodeId, NoId, "")>>
                   \o (IF fromPanel THEN <<Call("onNodeSelect", NoId, NoId, "")>> ELSE <<>>)
    /\ lastOp' = Op("handleNodeDelete", nodeId, NoId, "")
    /\ UNCHANGED <<widget, direction, pendingConnection, modalState, selectedEdgeId, now>>
    /\ App3Render

(* The edge detail panel shows while an edge and no node is selected. *)
App3EdgePanel ==
    IF selectedEdgeId # NoId /\ selectedNodeId = NoId
    THEN SelectSeq(edges, LAMBDA e : e.id = selectedEdgeId)
    ELSE <<>>

App3EdgeDelete ==
    /\ IsApp3
    /\ Deliver
    /\ PanelsFree
    /\ App3EdgePanel # <<>>
    /\ edges' = SelectSeq(edges, LAMBDA e : e.id # selectedEdgeId)
    /\ selectedEdgeId' = NoId
    /\ calls' = <<Call("onEdgeDelete", selectedEdgeId, NoId, ""), Call("onEdgeSelect", NoId, NoId, "")>>
    /\ lastOp' = OnEdge(Op("handleEdgeDelete", NoId, NoId, ""), selectedEdgeId)
    /\ UNCHANGED <<widget, nodes, direction, pendingConnection, modalState, selectedNodeId, now>>
    /\ App3Render

App3EdgeTypeChange(newType) ==
    /\ IsApp3
    /\ Deliver
    /\ PanelsFree
    /\ newType \in TypeChoices
    /\ App3EdgePanel # <<>>
    /\ newType # App3EdgePanel[1].connectionType
    /\ edges' = [k \in 1..Len(edges) |->
                    IF edges[k].id = selectedEdgeId
                    THEN [edges[k] EXCEPT !.connectionType = newType]
                    ELSE edges[k]]
    /\ calls' = <<Call("onEdgeTypeChange", selectedEdgeId, NoId, newType)>>
    /\ lastOp' = OnEdge(Op("handleEdgeTypeChange", NoId, NoId, newType), selectedEdgeId)
    /\ UNCHANGED <<widget, nodes, direction, uiVars, now>>
    /\ App3Render

(* handleNodeDragStop -> App3.handleNodeChange, case 'position' *)
App3NodeDragStop(id, position) ==
    /\ IsApp3
    /\ Deliver
    /\ PanelsFree
    /\ id \in NodeIds(nodes)
    /\ position \in DragPositions
    /\ nodes' = [k \in 1..Len(nodes) |->
                    IF nodes[k].id = id THEN [nodes[k] EXCEPT !.position = position] ELSE nodes[k]]
    /\ calls' = <<Call("onNodesChange", id, NoId, "position")>>
    /\ lastOp' = Op("handleNodeDragStop", id, NoId, "")
    /\ UNCHANGED <<widget, edges, direction, uiVars, now>>
    /\ App3Render

(* handleNodesChange -> App3.handleNodeChange, case 'remove' *)
App3NodeRemove(id) ==
    /\ IsApp3
    /\ Deliver
    /\ id \in NodeIds(nodes)
    /\ nodes' = withoutNode(nodes, id)
    /\ edges' = SelectSeq(edges, LAMBDA e : e.source # id /\ e.target # id)
    /\ calls' = <<Call("onNodesChange", id, NoId, "remove")>>
    /\ lastOp' = Op("handleNodeChange", id, NoId, "remove")
    /\ UNCHANGED <<widget, direction, uiVars, now>>
    /\ App3Render

(* handleConnect: App3's onEdgeAdd only logs. *)
App3Connect(c) ==
    /\ IsApp3
    /\ Deliver
    /\ PanelsFree
    /\ c \in Connections(NodeIds(nodes))
    /\ calls' = IF c.source = c.target THEN <<>> ELSE <<Call("onEdgeAdd", c.source, c.target, "")>>
    /\ lastOp' = Outcome(Op("handleConnect", c.source, c.target, ""),
                         IF c.source = c.target THEN "self" ELSE "ok")
    /\ UNCHANGED <<widget, graphVars, direction, uiVars, now>>
    /\ App3Memoised

(* onReconnect: App3's onEdgeEdit only logs. *)
App3Reconnect(i, connection) ==
    /\ IsApp3
    /\ Deliver
    /\ PanelsFree
    /\ i \in 1..Len(edges)
    /\ connection \in ReconnectInputs(edges[i], NodeIds(nodes))
    /\ calls' = <<Call("onEdgeEdit", connection.source, connection.target, "")>>
    /\ lastOp' = OnEdge(Op("onReconnect", connection.source, connection.target, edges[i].connectionType),
                        edges[i].id)
    /\ UNCHANGED <<widget, graphVars, direction, uiVars, now>>
    /\ App3Memoised

-----------------------------------------------------------------------------
EmptyLayout == [id \in {} |-> <<0, 0>>]

FlowMounted ==
    /\ widget = "OrgNetworkFlow"
    /\ direction = "TB"
    /\ \E inputs \in DemoEdgeSets :
          /\ nodes = getLayoutedNodes(toRFNodes(DemoNodes), toRFEdges(inputs), "TB")
          /\ edges = toRFEdges(inputs)
    /\ pendingConnection = <<>>
    /\ modalState = <<>>
    /\ selectedNodeId = NoId
    /\ selectedEdgeId = NoId
    /\ now = 1
    /\ calls = <<>>
    /\ lastOp = Op("mount", NoId, NoId, "")
    /\ prevStructureKey = <<>>
    /\ cachedLayout = EmptyLayout
    /\ rfData = EmptyLayout
    /\ solverRan = TRUE
    /\ steps = 0
    /\ localNodes = <<>>
    /\ localEdges = <<>>
    /\ effectsPending = FALSE

InitFlow == FlowMounted /\ readOnly = FALSE

NextFlow ==
    \/ \E id \in NodeIds(nodes) : FlowNodeClick(id)
    \/ FlowPaneClick
    \/ \E i \in 1..Len(edges) : FlowEdgeClick(i)
    \/ \E c \in Connections(NodeIds(nodes)) : FlowConnect(c)
    \/ \E type \in TypeChoices : FlowConnectionTypeSelect(type)
    \/ FlowConnectionCancel
    \/ \E i \in Mounted("OrgNetworkFlow", 1..Len(edges)) :
          \E c \in ReconnectInputs(edges[i], NodeIds(nodes)) : FlowReconnect(i, c)
    \/ \E type \in TypeChoices : FlowEdgeTypeChange(type)
    \/ \E id \in NodeIds(nodes) : FlowAddChild(id)
    \/ \E id \in NodeIds(nodes) : FlowEdit(id)
    \/ FlowModalCancel
    \/ \E name \in Names : \E description \in Descriptions : FlowModalConfirm(name, description)
    \/ \E id \in NodeIds(nodes) : FlowDelete(id)
    \/ \E confirmed \in BOOLEAN : FlowDeleteEdge(confirmed)
    \/ \E id \in NodeIds(nodes) : FlowNodesChange(id)
    \/ \E i \in Mounted("OrgNetworkFlow", 1..Len(edges)) : FlowEdgesChange(i)
    \/ Tick

SpecFlow == InitFlow /\ [][NextFlow]_vars

(* The self-managed widget after one gesture drawn between two handles has *)
(* been given its type.                                                    *)
InitConnected ==
    /\ widget = "OrgNetworkFlow"
    /\ direction = "TB"
    /\ \E inputs \in DemoEdgeSets : \E c \in Connections(NodeIds(DemoNodes)) : \E type \in TypeChoices :
          LET drawn == toRFEdges(inputs)
              newEdge == RFEdge(EdgeId(c.source, c.target, type), c.source, c.target,
                                c.sourceHandle, c.targetHandle, type, type)
          IN /\ c.source # c.target
             /\ ~ \E i \in 1..Len(drawn) :
                     /\ drawn[i].source = c.source
                     /\ drawn[i].target = c.target
                     /\ drawn[i].connectionType = type
             /\ nodes = getLayoutedNodes(toRFNodes(DemoNodes), drawn, "TB")
             /\ edges = addEdge(newEdge, drawn)
             /\ calls = <<Call("onChange", NoId, NoId, ""),
                          Call("onEdgeConnect", c.source, c.target, type)>>
             /\ lastOp = Op("handleConnectionTypeSelect", c.source, c.target, type)
    /\ pendingConnection = <<>>
    /\ modalState = <<>>
    /\ selectedNodeId = NoId
    /\ selectedEdgeId = NoId
    /\ now = 1
    /\ prevStructureKey = <<>>
    /\ cachedLayout = EmptyLayout
    /\ rfData = EmptyLayout
    /\ solverRan = FALSE
    /\ steps = 0
    /\ localNodes = <<>>
    /\ localEdges = <<>>
    /\ effectsPending = FALSE
    /\ readOnly = FALSE

SpecConnected == InitConnected /\ [][NextFlow]_vars

(* The self-managed widget after a click on one of its nodes. *)
InitNodeSelected ==
    /\ widget = "OrgNetworkFlow"
    /\ direction = "TB"
    /\ \E inputs \in DemoEdgeSets :
          /\ nodes = getLayoutedNodes(toRFNodes(DemoNodes), toRFEdges(inputs), "TB")
          /\ edges = toRFEdges(inputs)
    /\ pendingConnection = <<>>
    /\ modalState = <<>>
    /\ \E id \in NodeIds(DemoNodes) :
          /\ selectedNodeId = id
          /\ calls = <<Call("onNodeSelect", id, NoId, "")>>
          /\ lastOp = Op("onNodeClick", id, NoId, "")
    /\ selectedEdgeId = NoId
    /\ now = 1
    /\ prevStructureKey = <<>>
    /\ cachedLayout = EmptyLayout
    /\ rfData = EmptyLayout
    /\ solverRan = FALSE
    /\ steps = 0
    /\ localNodes = <<>>
    /\ localEdges = <<>>
    /\ effectsPending = FALSE
    /\ readOnly = FALSE

SpecNodeSelected == InitNodeSelected /\ [][NextFlow]_vars

(* The self-managed widget mounted with readOnly: what its wiring leaves   *)
(* the user able to raise.                                                 *)
InitReadOnly == FlowMounted /\ readOnly = TRUE

NextReadOnly ==
    \/ \E id \in NodeIds(nodes) : FlowNodeClick(id)
    \/ FlowPaneClick
    \/ \E i \in 1..Len(edges) : FlowEdgeClick(i)
    \/ \E id \in NodeIds(nodes) : FlowNodesChange(id)
    \/ Tick

SpecReadOnly == InitReadOnly /\ [][NextReadOnly]_vars

DemoOrgs == <<OrgInput(A, "A", "da", 3), OrgInput(B, "B", Undefined, 2), OrgInput(C, "C", "dc", 1)>>

dropIds(inputs) ==
    [i \in 1..Len(inputs) |-> EdgeProp(inputs[i].source, inputs[i].target, inputs[i].connectionType)]

InitControlled ==
    /\ direction = "TB"
    /\ nodes = DemoOrgs
    /\ \E inputs \in DemoEdgeSets : edges = dropIds(inputs)
    /\ pendingConnection = <<>>
    /\ modalState = <<>>
    /\ selectedNodeId = NoId
    /\ selectedEdgeId = NoId
    /\ now = 1
    /\ calls = <<>>
    /\ lastOp = Op("mount", NoId, NoId, "")
    /\ prevStructureKey = <<>>
    /\ cachedLayout = EmptyLayout
    /\ rfData = EmptyLayout
    /\ solverRan = TRUE
    /\ steps = 0
    /\ localNodes = <<>>
    /\ localEdges = <<>>
    /\ effectsPending = FALSE
    /\ readOnly = FALSE

InitApp2 == widget = "OrgNetworkflow2" /\ InitControlled

NextApp2 ==
    \/ \E id \in NodeIds(nodes) : App2NodeClick(id)
    \/ App2PaneClick
    \/ \E i \in 1..Len(edges) : App2EdgeClick(i)
    \/ \E c \in Connections(NodeIds(nodes)) : App2Connect(c)
    \/ \E type \in TypeChoices : App2ConnectionTypeSelect(type)
    \/ App2ConnectionCancel

SpecApp2 == InitApp2 /\ [][NextApp2]_vars

InitOnChange == widget = "onChangeWidget" /\ InitControlled

NextOnChange ==
    \/ \E id \in NodeIds(nodes) : \E position \in DragPositions : OnChangeNodesChange(id, position)
    \/ \E c \in Connections(NodeIds(nodes)) : OnChangeConnect(c)
    \/ \E i \in 1..Len(edges) :
          \E c \in ReconnectInputs(toRFEdgesControlled(edges)[i], NodeIds(nodes)) : OnChangeReconnect(i, c)

SpecOnChange == InitOnChange /\ [][NextOnChange]_vars

App3Nodes ==
    <<PositionedNode(A, "A", "da", <<0, 0>>), PositionedNode(B, "B", Undefined, <<0, 0>>),
      PositionedNode(C, "C", "dc", <<0, 0>>)>>

withHandles(inputs) ==
    [i \in 1..Len(inputs) |->
        HandleEdge(inputs[i].id, inputs[i].source, inputs[i].target, inputs[i].connectionType,
                   "bottom-source", "top-target")]

InitApp3 ==
    /\ widget = "orgNetworkWidget"
    /\ direction = "TB"
    /\ nodes = App3Nodes
    /\ \E inputs \in DemoEdgeSets : edges = withHandles(inputs)
    /\ pendingConnection = <<>>
    /\ modalState = <<>>
    /\ selectedNodeId = NoId
    /\ selectedEdgeId = NoId
    /\ now = 1
    /\ calls = <<>>
    /\ lastOp = Op("mount", NoId, NoId, "")
    /\ LET pass == rfDataPass(nodes, edges, direction, <<>>, EmptyLayout)
       IN /\ prevStructureKey = pass.key
          /\ cachedLayout = pass.cache
          /\ rfData = pass.shown
          /\ solverRan = pass.ran
    /\ steps = 0
    /\ localNodes = <<>>
    /\ localEdges = <<>>
    /\ effectsPending = FALSE
    /\ readOnly = FALSE

NextApp3 ==
    \/ \E id \in NodeIds(nodes) : App3NodeClick(id)
    \/ \E i \in 1..Len(edges) : App3EdgeClick(i)
    \/ App3PaneClick
    \/ \E id \in NodeIds(nodes) : App3NodeAdd(id)
    \/ \E id \in NodeIds(nodes) : App3NodeEdit(id)
    \/ App3ModalCancel
    \/ \E name \in Names : \E description \in Descriptions : App3AddConfirm(name, description)
    \/ \E name \in Names : \E description \in Descriptions : App3EditConfirm(name, description)
    \/ \E id \in NodeIds(nodes) : \E fromPanel \in BOOLEAN : App3NodeDelete(id, fromPanel)
    \/ App3EdgeDelete
    \/ \E type \in TypeChoices : App3EdgeTypeChange(type)
    \/ \E id \in NodeIds(nodes) : \E position \in DragPositions : App3NodeDragStop(id, position)
    \/ \E id \in NodeIds(nodes) : App3NodeRemove(id)
    \/ \E c \in Connections(NodeIds(nodes)) : App3Connect(c)
    \/ \E i \in Mounted("orgNetworkWidget", 1..Len(edges)) :
          \E c \in ReconnectInputs(edges[i], NodeIds(nodes)) : App3Reconnect(i, c)
    \/ Tick

SpecApp3 == InitApp3 /\ [][NextApp3]_vars

-----------------------------------------------------------------------------
(* The canvas of the controlled widget mounted by App3.  The arrays handed *)
(* to <ReactFlow> are the widget's local state: localNodes and localEdges  *)
(* are copied from the rfData memo by two effects that run after the pass  *)
(* in which the memo changed, and handleNodesChange applies the canvas's   *)
(* changes to localNodes at once.  Every step ends with one committed      *)
(* pass; localNodes and localEdges are what that pass hands to the canvas. *)

IsCanvas == widget = "orgNetworkWidget.canvas"

CanvasNode(id, position) ==
    [id |-> id, position |-> position, dragging |-> FALSE, selected |-> FALSE, measured |-> FALSE]

(* rfData.nodes of the last pass, as setLocalNodes receives it. *)
rfDataLocal(ns, shown) == [i \in 1..Len(ns) |-> CanvasNode(ns[i].id, shown[ns[i].id])]

NodeChange(id, type, position) == [id |-> id, position |-> position, type |-> type]

(* Changes the canvas raises through onNodesChange: a move of a dragged    *)
(* node, a selection, a measurement, and the delete key on selected nodes. *)
NodeChanges(nds) ==
    {NodeChange(id, "position", p) : id \in NodeIds(nds), p \in DragPositions}
    \cup {NodeChange(id, type, <<>>) : id \in NodeIds(nds), type \in {"select", "dimensions"}}
    \cup {NodeChange(nds[i].id, "remove", <<>>) : i \in {j \in 1..Len(nds) : nds[j].selected}}

(* applyNodeChanges of the library for one change. *)
applyNodeChanges(change, nds) ==
    IF change.type = "remove"
    THEN SelectSeq(nds, LAMBDA n : n.id # change.id)
    ELSE [i \in 1..Len(nds) |->
             IF nds[i].id # change.id THEN nds[i]
             ELSE IF change.type = "position"
                  THEN [nds[i] EXCEPT !.position = change.position, !.dragging = TRUE]
             ELSE IF change.type = "select"
                  THEN [nds[i] EXCEPT !.selected = TRUE]
             ELSE [nds[i] EXCEPT !.measured = TRUE]]

(* A handler that hands every change on. *)
everyChange(change) == TRUE

(* The filter of handleNodesChange. *)
essentialChanges(change) ==
    change.type # "dimensions" /\ change.type # "select" /\ change.type # "position"

(* App3.handleNodeChange: the node array and the edge array it sets. *)
handleNodeChangeNodes(ns, change) ==
    IF change.type = "position"
    THEN [k \in 1..Len(ns) |->
             IF ns[k].id = change.id THEN [ns[k] EXCEPT !.position = change.position] ELSE ns[k]]
    ELSE IF change.type = "remove" THEN SelectSeq(ns, LAMBDA n : n.id # change.id)
    ELSE ns

handleNodeChangeEdges(es, change) ==
    IF change.type = "remove"
    THEN SelectSeq(es, LAMBDA e : e.source # change.id /\ e.target # change.id)
    ELSE es

(* What the owner is handed with a forwarded change. *)
Forwarded(position, dragging) == [position |-> position, dragging |-> dragging]

(* handleNodesChange: the change is applied to localNodes; an essential    *)
(* one is handed to App3.handleNodeChange, whose setNodes and setEdges are *)
(* committed by the same pass.                                             *)
CanvasNodesChange(change) ==
    /\ IsCanvas
    /\ Budget
    /\ modalState = <<>>
    /\ ~effectsPending
    /\ change \in NodeChanges(localNodes)
    /\ localNodes' = applyNodeChanges(change, localNodes)
    /\ localEdges' = localEdges
    /\ lastOp' = Op("handleNodesChange", change.id, NoId, change.type)
    /\ UNCHANGED <<widget, direction, uiVars, now>>
    /\ IF essentialChanges(change)
       THEN /\ nodes' = handleNodeChangeNodes(nodes, change)
            /\ edges' = handleNodeChangeEdges(edges, change)
            /\ calls' = <<Call("onNodesChange", change.id, Forwarded(change.position, TRUE), change.type)>>
            /\ effectsPending' = TRUE
            /\ App3Render
       ELSE /\ UNCHANGED graphVars
            /\ calls' = <<>>
            /\ effectsPending' = FALSE
            /\ App3Memoised

(* The drag of node id stops: the canvas raises its last position change   *)
(* (dragging = false) through handleNodesChange, which keeps it from the   *)
(* owner, and calls handleNodeDragStop with the node as it is shown.       *)
CanvasNodeDragStop(id) ==
    /\ IsCanvas
    /\ Budget
    /\ modalState = <<>>
    /\ ~effectsPending
    /\ \E i \in 1..Len(localNodes) : localNodes[i].id = id /\ localNodes[i].dragging
    /\ LET node == localNodes[IndexOf(id, localNodes)]
           stop == NodeChange(id, "position", node.position)
       IN /\ localNodes' = [i \in 1..Len(localNodes) |->
                               IF localNodes[i].id = id
                               THEN [localNodes[i] EXCEPT !.dragging = FALSE]
                               ELSE localNodes[i]]
          /\ nodes' = handleNodeChangeNodes(nodes, stop)
          /\ edges' = handleNodeChangeEdges(edges, stop)
          /\ calls' = (IF essentialChanges(stop)
                       THEN <<Call("onNodesChange", id, Forwarded(node.position, FALSE), "position")>>
                       ELSE <<>>)
                      \o <<Call("onNodesChange", id, Forwarded(node.position, FALSE), "position")>>
    /\ localEdges' = localEdges
    /\ effectsPending' = TRUE
    /\ lastOp' = Op("handleNodeDragStop", id, NoId, "")
    /\ UNCHANGED <<widget, direction, uiVars, now>>
    /\ App3Render

(* The delete button of a node: App3.handleNodeDelete. *)
CanvasNodeDelete(nodeId) ==
    /\ IsCanvas
    /\ Budget
    /\ modalState = <<>>
    /\ ~effectsPending
    /\ nodeId \in NodeIds(nodes)
    /\ nodes' = withoutNode(nodes, nodeId)
    /\ edges' = withoutEdgesOf(edges, nodeId)
    /\ calls' = <<Call("onNodeDelete", nodeId, NoId, "")>>
    /\ lastOp' = Op("handleNodeDelete", nodeId, NoId, "")
    /\ UNCHANGED <<localNodes, localEdges>>
    /\ effectsPending' = TRUE
    /\ UNCHANGED <<widget, direction, uiVars, now>>
    /\ App3Render

(* The add button of a node: App3.handleNodeAdd opens the modal. *)
CanvasNodeAdd(parentId) ==
    /\ IsCanvas
    /\ Budget
    /\ modalState = <<>>
    /\ ~effectsPending
    /\ parentId \in NodeIds(nodes)
    /\ modalState' = <<[id |-> parentId, mode |-> "add"]>>
    /\ calls' = <<Call("onNodeAdd", parentId, NoId, "")>>
    /\ lastOp' = Op("handleNodeAdd", parentId, NoId, "")
    /\ UNCHANGED <<localNodes, localEdges, effectsPending>>
    /\ UNCHANGED <<widget, graphVars, direction, pendingConnection, selectedNodeId, selectedEdgeId, now>>
    /\ App3Memoised

(* App3.handleAddConfirm *)
CanvasAddConfirm(name, description) ==
    /\ IsCanvas
    /\ Budget
    /\ name \in Names
    /\ description \in Descriptions
    /\ modalState # <<>>
    /\ Len(nodes) < MaxNodes
    /\ Len(edges) < MaxEdges
    /\ LET addModalParentId == modalState[1].id
           newId == <<"o", "r", "g", "-">> \o NumStr(now)
           newNode == PositionedNode(newId, name, description, <<0, 0>>)
           newEdge == HandleEdge(<<"e", "-">> \o NumStr(now), addModalParentId, newId,
                                 "reports-to", "bottom-source", "top-target")
       IN /\ nodes' = Append(nodes, newNode)
          /\ edges' = Append(edges, newEdge)
          /\ lastOp' = Op("handleAddConfirm", addModalParentId, newId, "")
    /\ modalState' = <<>>
    /\ calls' = <<>>
    /\ UNCHANGED <<localNodes, localEdges>>
    /\ effectsPending' = TRUE
    /\ UNCHANGED <<widget, direction, pendingConnection, selectedNodeId, selectedEdgeId, now>>
    /\ App3Render

(* The two effects on rfData.nodes and rfData.edges, run after the pass    *)
(* that changed the memo and committed together by the next pass.          *)
CanvasEffects ==
    /\ IsCanvas
    /\ effectsPending
    /\ localNodes' = rfDataLocal(nodes, rfData)
    /\ localEdges' = edges
    /\ effectsPending' = FALSE
    /\ calls' = <<>>
    /\ lastOp' = Op("setLocal", NoId, NoId, "")
    /\ UNCHANGED <<widget, graphVars, direction, uiVars, now, steps, readOnly>>
    /\ App3Memoised

InitCanvas ==
    /\ widget = "orgNetworkWidget.canvas"
    /\ direction = "TB"
    /\ nodes = App3Nodes
    /\ \E inputs \in DemoEdgeSets : edges = withHandles(inputs)
    /\ pendingConnection = <<>>
    /\ modalState = <<>>
    /\ selectedNodeId = NoId
    /\ selectedEdgeId = NoId
    /\ now = 1
    /\ calls = <<>>
    /\ lastOp = Op("mount", NoId, NoId, "")
    /\ LET pass == rfDataPass(nodes, edges, direction, <<>>, EmptyLayout)
       IN /\ prevStructureKey = pass.key
          /\ cachedLayout = pass.cache
          /\ rfData = pass.shown
          /\ solverRan = pass.ran
          /\ localNodes = rfDataLocal(nodes, pass.shown)
    /\ localEdges = edges
    /\ effectsPending = FALSE
    /\ steps = 0
    /\ readOnly = FALSE

NextCanvas ==
    \/ \E change \in Mounted("orgNetworkWidget.canvas", NodeChanges(localNodes)) :
          CanvasNodesChange(change)
    \/ \E id \in NodeIds(nodes) : CanvasNodeDragStop(id)
    \/ \E id \in NodeIds(nodes) : CanvasNodeDelete(id)
    \/ \E id \in NodeIds(nodes) : CanvasNodeAdd(id)
    \/ \E name \in Names : \E description \in Descriptions : CanvasAddConfirm(name, description)
    \/ CanvasEffects

SpecCanvas == InitCanvas /\ [][NextCanvas]_vars

-----------------------------------------------------------------------------
(* The structural-key widget (OrgNetwork) on its own: an owner may hand it *)
(* any node array, edge array and direction on any render.                 *)

IsOrgNetwork == widget = "OrgNetwork"

AB == <<"a", ",", "b">>
Directions == {"TB", "LR"}

OwnerNodeArrays ==
    {<<PositionedNode(A, "A", "da", p)>> : p \in DragPositions}
    \cup {<<PositionedNode(A, "A", "da", p), PositionedNode(B, "B", Undefined, <<0, 0>>)>> : p \in DragPositions}
    \cup {<<PositionedNode(A, "A", "da", p), PositionedNode(B, "B", Undefined, <<0, 0>>),
            PositionedNode(C, "C", "dc", <<0, 0>>)>> : p \in DragPositions}
    \cup {<<PositionedNode(AB, "AB", Undefined, <<0, 0>>)>>}

OwnerEdgeArrays(ns) ==
    {es \in {<<>>,
             <<HandleEdge(<<"e", "1">>, A, B, "reports-to", "bottom-source", "top-target")>>,
             <<HandleEdge(<<"e", "1">>, A, B, "reports-to", "bottom-source", "top-target"),
               HandleEdge(<<"e", "2">>, B, C, "reports-to", "bottom-source", "top-target")>>} :
        \A i \in 1..Len(es) : es[i].source \in NodeIds(ns) /\ es[i].target \in NodeIds(ns)}

(* The owner renders the widget with new arrays (equal to the old ones or  *)
(* not) or a new direction: the rfData memo is evaluated.                  *)
OwnerRender(ns, es, dir) ==
    /\ IsOrgNetwork
    /\ Deliver
    /\ ns \in OwnerNodeArrays
    /\ es \in OwnerEdgeArrays(ns)
    /\ dir \in Directions
    /\ nodes' = ns
    /\ edges' = es
    /\ direction' = dir
    /\ calls' = <<>>
    /\ lastOp' = Op("render", NoId, NoId, "")
    /\ UNCHANGED <<widget, uiVars, now>>
    /\ App3Render

(* The owner renders again with the very same arrays and direction. *)
OwnerRerender ==
    /\ IsOrgNetwork
    /\ Deliver
    /\ calls' = <<>>
    /\ lastOp' = Op("rerender", NoId, NoId, "")
    /\ UNCHANGED <<widget, graphVars, direction, uiVars, now>>
    /\ App3Memoised

InitOrgNetwork ==
    /\ widget = "OrgNetwork"
    /\ direction \in Directions
    /\ nodes \in OwnerNodeArrays
    /\ edges \in OwnerEdgeArrays(nodes)
    /\ pendingConnection = <<>>
    /\ modalState = <<>>
    /\ selectedNodeId = NoId
    /\ selectedEdgeId = NoId
    /\ now = 1
    /\ calls = <<>>
    /\ lastOp = Op("mount", NoId, NoId, "")
    /\ LET pass == rfDataPass(nodes, edges, direction, <<>>, EmptyLayout)
       IN /\ prevStructureKey = pass.key
          /\ cachedLayout = pass.cache
          /\ rfData = pass.shown
          /\ solverRan = pass.ran
    /\ steps = 0
    /\ localNodes = <<>>
    /\ localEdges = <<>>
    /\ effectsPending = FALSE
    /\ readOnly = FALSE

NextOrgNetwork ==
    \/ \E ns \in OwnerNodeArrays : \E es \in OwnerEdgeArrays(ns) : \E dir \in Directions :
          OwnerRender(ns, es, dir)
    \/ OwnerRerender

SpecOrgNetwork == InitOrgNetwork /\ [][NextOrgNetwork]_vars

-----------------------------------------------------------------------------
(* The widget with a layoutCache (ChartProps) on its own.  Its layout memo *)
(* is keyed by the structure key, its rfData memo by the identity of the   *)
(* nodes and edges arrays; a node's position may be absent.                *)

IsChart == widget = "Chart"

(* A node without a position property. *)
NoPosition == <<>>
ChartPositions == {NoPosition, <<0, 0>>, <<40, 70>>}

ChartNodeArrays ==
    {<<PositionedNode(A, "A", "da", p)>> : p \in ChartPositions}
    \cup {<<PositionedNode(A, "A", "da", p), PositionedNode(B, "B", Undefined, NoPosition)>> : p \in ChartPositions}

(* useMemo(..., [structureKey]): the solver runs when the key string changed. *)
layoutCachePass(ns, es, dir, prevKey, cache) ==
    LET key == structureKey(ns, es, dir)
    IN IF key # prevKey
       THEN [cache |-> layoutMap(getLayoutedNodes(ns, es, dir)), key |-> key, ran |-> TRUE]
       ELSE [cache |-> cache, key |-> prevKey, ran |-> FALSE]

(* n.position ?? layoutCache.current[n.id] ?? { x: 0, y: 0 } *)
chartPosition(n, cache) ==
    IF n.position # NoPosition THEN n.position
    ELSE IF n.id \in DOMAIN cache THEN cache[n.id]
    ELSE <<0, 0>>

chartRfData(ns, cache) == [id \in NodeIds(ns) |-> chartPosition(ns[IndexOf(id, ns)], cache)]

(* The owner renders with new arrays: both memos are evaluated. *)
ChartRender(ns, es, dir) ==
    /\ IsChart
    /\ Deliver
    /\ ns \in ChartNodeArrays
    /\ es \in OwnerEdgeArrays(ns)
    /\ dir \in Directions
    /\ nodes' = ns
    /\ edges' = es
    /\ direction' = dir
    /\ LET pass == layoutCachePass(ns, es, dir, prevStructureKey, cachedLayout)
       IN /\ prevStructureKey' = pass.key
          /\ cachedLayout' = pass.cache
          /\ solverRan' = pass.ran
          /\ rfData' = chartRfData(ns, pass.cache)
    /\ calls' = <<>>
    /\ lastOp' = Op("render", NoId, NoId, "")
    /\ UNCHANGED <<widget, uiVars, now>>

(* The owner renders with the same arrays and another direction: the     *)
(* layout memo is evaluated, the rfData memo returns what it held.       *)
ChartDirection(dir) ==
    /\ IsChart
    /\ Deliver
    /\ dir \in Directions
    /\ dir # direction
    /\ direction' = dir
    /\ LET pass == layoutCachePass(nodes, edges, dir, prevStructureKey, cachedLayout)
       IN /\ prevStructureKey' = pass.key
          /\ cachedLayout' = pass.cache
          /\ solverRan' = pass.ran
    /\ calls' = <<>>
    /\ lastOp' = Op("render", NoId, NoId, "direction")
    /\ UNCHANGED <<widget, graphVars, uiVars, now, rfData>>

InitChart ==
    /\ widget = "Chart"
    /\ direction \in Directions
    /\ nodes \in ChartNodeArrays
    /\ edges \in OwnerEdgeArrays(nodes)
    /\ pendingConnection = <<>>
    /\ modalState = <<>>
    /\ selectedNodeId = NoId
    /\ selectedEdgeId = NoId
    /\ now = 1
    /\ calls = <<>>
    /\ lastOp = Op("mount", NoId, NoId, "")
    /\ LET pass == layoutCachePass(nodes, edges, direction, <<>>, EmptyLayout)
       IN /\ prevStructureKey = pass.key
          /\ cachedLayout = pass.cache
          /\ solverRan = pass.ran
          /\ rfData = chartRfData(nodes, pass.cache)
    /\ steps = 0
    /\ localNodes = <<>>
    /\ localEdges = <<>>
    /\ effectsPending = FALSE
    /\ readOnly = FALSE

NextChart ==
    \/ \E ns \in ChartNodeArrays : \E es \in OwnerEdgeArrays(ns) : \E dir \in Directions :
          ChartRender(ns, es, dir)
    \/ \E dir \in Directions : ChartDirection(dir)

SpecChart == InitChart /\ [][NextChart]_vars

-----------------------------------------------------------------------------
(* The layoutCache widget owned by App4.  `nodes` and `edges` are App4's   *)
(* state; a label is the sequence of its parts.                            *)

IsApp4 == widget = "App4"

NodeProp(id, label, description) ==
    [id |-> id, position |-> NoPosition, label |-> label, description |-> description,
     selected |-> FALSE]

App4Nodes == <<NodeProp(A, <<"A">>, "da"), NodeProp(B, <<"B">>, "db")>>
App4Edges == <<EdgeInput(<<"e", "1">>, A, B, "reports-to")>>

(* Render after App4 stored new arrays: layout memo, then rfData. *)
App4Render ==
    LET pass == layoutCachePass(nodes', edges', direction', prevStructureKey, cachedLayout)
    IN /\ prevStructureKey' = pass.key
       /\ cachedLayout' = pass.cache
       /\ solverRan' = pass.ran
       /\ rfData' = chartRfData(nodes', pass.cache)

App4NodeClick(id) ==
    /\ IsApp4
    /\ Deliver
    /\ id \in NodeIds(nodes)
    /\ selectedNodeId' = id
    /\ calls' = <<Call("onNodeSelect", id, NoId, "")>>
    /\ lastOp' = Op("App4.handleNodeSelect", id, NoId, "")
    /\ UNCHANGED <<widget, graphVars, direction, pendingConnection, modalState, selectedEdgeId, now>>
    /\ App3Memoised

App4PaneClick ==
    /\ IsApp4
    /\ Deliver
    /\ selectedNodeId' = NoId
    /\ calls' = <<Call("onPaneClick", NoId, NoId, ""), Call("onNodeSelect", NoId, NoId, "")>>
    /\ lastOp' = Op("App4.handleNodeSelect", NoId, NoId, "")
    /\ UNCHANGED <<widget, graphVars, direction, pendingConnection, modalState, selectedEdgeId, now>>
    /\ App3Memoised

(* handleNodeAdd: the child is added at once, its id taken from the clock. *)
App4NodeAdd(parentId) ==
    /\ IsApp4
    /\ Deliver
    /\ parentId \in NodeIds(nodes)
    /\ Len(nodes) < MaxNodes
    /\ Len(edges) < MaxEdges
    /\ LET newId == <<"o", "r", "g", "-">> \o NumStr(now)
           newNode == NodeProp(newId, <<"New Organization">>, "Added via parent")
           newEdge == EdgeInput(<<"e", "-">> \o NumStr(now), parentId, newId, "reports-to")
       IN /\ nodes' = Append(nodes, newNode)
          /\ edges' = Append(edges, newEdge)
          /\ lastOp' = Op("App4.handleNodeAdd", parentId, newId, "")
    /\ calls' = <<Call("onNodeAdd", parentId, NoId, "")>>
    /\ UNCHANGED <<widget, direction, uiVars, now>>
    /\ App4Render

(* handleNodeEdit: `${n.label} (Edited)` *)
App4NodeEdit(nodeId) ==
    /\ IsApp4
    /\ Deliver
    /\ nodeId \in NodeIds(nodes)
    /\ \A i \in 1..Len(nodes) : Len(nodes[i].label) <= MaxEdits
    /\ nodes' = [i \in 1..Len(nodes) |->
                    IF nodes[i].id = nodeId
                    THEN [nodes[i] EXCEPT !.label = @ \o <<" (Edited)">>]
                    ELSE nodes[i]]
    /\ calls' = <<Call("onNodeEdit", nodeId, NoId, "")>>
    /\ lastOp' = Op("App4.handleNodeEdit", nodeId, NoId, "")
    /\ UNCHANGED <<widget, edges, direction, uiVars, now>>
    /\ App4Render

App4NodeDelete(nodeId) ==
    /\ IsApp4
    /\ Deliver
    /\ nodeId \in NodeIds(nodes)
    /\ nodes' = SelectSeq(nodes, LAMBDA n : n.id # nodeId)
    /\ edges' = SelectSeq(edges, LAMBDA e : e.source # nodeId /\ e.target # nodeId)
    /\ selectedNodeId' = NoId
    /\ calls' = <<Call("onNodeDelete", nodeId, NoId, "")>>
    /\ lastOp' = Op("App4.handleNodeDelete", nodeId, NoId, "")
    /\ UNCHANGED <<widget, direction, pendingConnection, modalState, selectedEdgeId, now>>
    /\ App4Render

(* handleNodesChange, a position change with dragging = false. *)
App4NodeDragEnd(id, position) ==
    /\ IsApp4
    /\ Deliver
    /\ id \in NodeIds(nodes)
    /\ position \in DragPositions
    /\ nodes' = [i \in 1..Len(nodes) |->
                    IF nodes[i].id = id THEN [nodes[i] EXCEPT !.position = position] ELSE nodes[i]]
    /\ calls' = <<Call("onNodesChange", id, NoId, "position")>>
    /\ lastOp' = Op("App4.handleNodesChange", id, NoId, "position")
    /\ UNCHANGED <<widget, edges, direction, uiVars, now>>
    /\ App4Render

(* handleNodesChange, a select change. *)
App4NodeSelectChange(id, selected) ==
    /\ IsApp4
    /\ Deliver
    /\ id \in NodeIds(nodes)
    /\ selected \in BOOLEAN
    /\ nodes' = [i \in 1..Len(nodes) |->
                    IF nodes[i].id = id THEN [nodes[i] EXCEPT !.selected = selected] ELSE nodes[i]]
    /\ calls' = <<Call("onNodesChange", id, NoId, "select")>>
    /\ lastOp' = Op("App4.handleNodesChange", id, NoId, "select")
    /\ UNCHANGED <<widget, edges, direction, uiVars, now>>
    /\ App4Render

(* handleConnect and handleReconnect: App4 only logs what they report. *)
App4Connect(c) ==
    /\ IsApp4
    /\ Deliver
    /\ c \in Connections(NodeIds(nodes))
    /\ calls' = IF c.source = c.target THEN <<>>
                ELSE <<Call("onEdgeAdd", c.source, c.target, ""), Call("onConnect", c.source, c.target, "")>>
    /\ lastOp' = Outcome(Op("App4.handleConnect", c.source, c.target, ""),
                         IF c.source = c.target THEN "self" ELSE "ok")
    /\ UNCHANGED <<widget, graphVars, direction, uiVars, now>>
    /\ App3Memoised

App4Reconnect(c) ==
    /\ IsApp4
    /\ Deliver
    /\ edges # <<>>
    /\ c \in Connections(NodeIds(nodes))
    /\ calls' = <<Call("onEdgeAdd", c.source, c.target, ""), Call("onReconnect", c.source, c.target, "")>>
    /\ lastOp' = Op("App4.handleReconnect", c.source, c.target, "")
    /\ UNCHANGED <<widget, graphVars, direction, uiVars, now>>
    /\ App3Memoised

InitApp4 ==
    /\ widget = "App4"
    /\ direction = "TB"
    /\ nodes = App4Nodes
    /\ edges = App4Edges
    /\ pendingConnection = <<>>
    /\ modalState = <<>>
    /\ selectedNodeId = NoId
    /\ selectedEdgeId = NoId
    /\ now = 1
    /\ calls = <<>>
    /\ lastOp = Op("mount", NoId, NoId, "")
    /\ LET pass == layoutCachePass(nodes, edges, direction, <<>>, EmptyLayout)
       IN /\ prevStructureKey = pass.key
          /\ cachedLayout = pass.cache
          /\ solverRan = pass.ran
          /\ rfData = chartRfData(nodes, pass.cache)
    /\ steps = 0
    /\ localNodes = <<>>
    /\ localEdges = <<>>
    /\ effectsPending = FALSE
    /\ readOnly = FALSE

NextApp4 ==
    \/ \E id \in NodeIds(nodes) : App4NodeClick(id)
    \/ App4PaneClick
    \/ \E id \in NodeIds(nodes) : App4NodeAdd(id)
    \/ \E id \in NodeIds(nodes) : App4NodeEdit(id)
    \/ \E id \in NodeIds(nodes) : App4NodeDelete(id)
    \/ \E id \in NodeIds(nodes) : \E position \in DragPositions : App4NodeDragEnd(id, position)
    \/ \E id \in NodeIds(nodes) : \E selected \in BOOLEAN : App4NodeSelectChange(id, selected)
    \/ \E c \in Connections(NodeIds(nodes)) : App4Connect(c)
    \/ \E c \in Connections(NodeIds(nodes)) : App4Reconnect(c)
    \/ Tick

SpecApp4 == InitApp4 /\ [][NextApp4]_vars

(* Either layout-caching widget, with any owner. *)
InitLayoutCache == InitOrgNetwork \/ InitChart

NextLayoutCache == NextOrgNetwork \/ NextChart

SpecLayoutCache == InitLayoutCache /\ [][NextLayoutCache]_vars

(* The converters between the owner's arrays and the canvas arrays, in the *)
(* three files that define all four.  A record has a field exactly when    *)
(* the object has a defined value for it.                                  *)

ConverterSources == {"part_005", "part_006", "OrgNetworkFlow_widget"}

IsConverters == widget \in ConverterSources

(* The properties of `r` among `K` that are not undefined. *)
Defined(r, K) == [k \in K \cap DOMAIN r |-> r[k]]

(* e.connectionType ?? 'reports-to' *)
connTypeOf(e) == IF "connectionType" \in DOMAIN e THEN e.connectionType ELSE "reports-to"

toRFNode(v, n) ==
    IF v = "part_006"
    THEN Defined(n, {"id", "position", "type"}) @@ [data |-> Defined(n, {"label", "description"})]
    ELSE [id |-> n.id, position |-> <<0, 0>>, type |-> "orgNode",
          data |-> Defined(n, IF v = "part_005" THEN {"label", "description"}
                              ELSE {"label", "description", "memberCount"})]

toRFEdge(v, e) ==
    LET type == connTypeOf(e)
        drawn == [animated |-> CONNECTION_TYPES[type].animated, source |-> e.source,
                  target |-> e.target, type |-> "smoothstep",
                  stroke |-> CONNECTION_TYPES[type].color]
    IN CASE v = "part_005" ->
              drawn @@ Defined(e, {"id"}) @@ [data |-> [connectionType |-> type]]
         [] v = "part_006" ->
              drawn @@ Defined(e, {"id", "sourceHandle", "targetHandle"})
                    @@ [data |-> Defined(e, {"label"}) @@ [connectionType |-> type]]
         [] OTHER ->
              drawn @@ [id |-> EdgeId(e.source, e.target, type), data |-> [connectionType |-> type]]

toSimplifiedNode(v, n) ==
    IF v = "part_006"
    THEN Defined(n, {"id", "position", "type"}) @@ Defined(n.data, {"label", "description"})
    ELSE [id |-> n.id] @@ Defined(n.data, {"label", "description", "memberCount"})

toSimplifiedEdge(v, e) ==
    LET connectionType == connTypeOf(e.data)
    IN CASE v = "part_005" ->
              Defined(e, {"id", "source", "target"}) @@ [connectionType |-> connectionType]
         [] v = "part_006" ->
              Defined(e, {"id", "source", "target", "sourceHandle", "targetHandle"})
                  @@ [type |-> IF "type" \in DOMAIN e THEN e.type ELSE "smoothstep",
                      connectionType |-> connectionType]
         [] OTHER ->
              [source |-> e.source, target |-> e.target, connectionType |-> connectionType]

(* The fields each file's NodeInput and EdgeInput declare. *)
NodeInputFields(v) ==
    CASE v = "part_005" -> {"id", "label", "description", "memberCount"}
      [] v = "part_006" -> {"id", "position", "label", "description", "type"}
      [] OTHER -> {"id", "label", "description", "memberCount", "type"}

EdgeInputFields(v) ==
    CASE v = "part_005" -> {"id", "source", "target", "connectionType"}
      [] v = "part_006" -> {"id", "source", "target", "sourceHandle", "targetHandle",
                            "label", "type", "connectionType"}
      [] OTHER -> {"source", "target", "connectionType"}

RequiredFields(v) ==
    IF v = "part_006" THEN {"id", "position", "source", "target"}
    ELSE {"id", "label", "source", "target"} \cap (NodeInputFields(v) \cup EdgeInputFields(v))

(* Arrays an owner can hand over: required fields always, optional ones or not. *)
ConverterNodeArrays(v) ==
    LET full == [id |-> A, position |-> <<40, 70>>, type |-> "orgNode", label |-> "A",
                 description |-> "da", memberCount |-> 3]
    IN { <<Defined(full, K)>> :
            K \in {K \in SUBSET NodeInputFields(v) : RequiredFields(v) \cap NodeInputFields(v) \subseteq K} }

ConverterEdgeArrays(v) ==
    LET full == [id |-> <<"e", "1">>, source |-> A, target |-> B, type |-> "step",
                 sourceHandle |-> "bottom-source", targetHandle |-> "top-target", label |-> "l"]
        optional == {"label", "type", "sourceHandle"}
    IN { <<Defined(full, K) @@ Defined([connectionType |-> type], EdgeInputFields(v))>> :
            K \in {K \in SUBSET EdgeInputFields(v) :
                     /\ RequiredFields(v) \cap EdgeInputFields(v) \subseteq K
                     /\ K \subseteq RequiredFields(v) \cup optional},
            type \in {"reports-to", "funds"} }
       \cup { <<Defined(full, RequiredFields(v) \cap EdgeInputFields(v))>> }

(* toSimplified of toRF, over the owner's arrays; the result is what onChange carries. *)
RoundTrip ==
    /\ IsConverters
    /\ Deliver
    /\ LET rfNodes == [i \in 1..Len(nodes) |-> toRFNode(widget, nodes[i])]
           rfEdges == [i \in 1..Len(edges) |-> toRFEdge(widget, edges[i])]
       IN calls' = <<[t |-> "",
                      a |-> [i \in 1..Len(rfNodes) |-> toSimplifiedNode(widget, rfNodes[i])],
                      b |-> [i \in 1..Len(rfEdges) |-> toSimplifiedEdge(widget, rfEdges[i])],
                      cb |-> "onChange"]>>
    /\ lastOp' = Op("toSimplified", NoId, NoId, "")
    /\ UNCHANGED <<widget, graphVars, direction, uiVars, now>>
    /\ App3Memoised

InitConverters ==
    /\ widget \in ConverterSources
    /\ direction = "TB"
    /\ nodes \in ConverterNodeArrays(widget)
    /\ edges \in ConverterEdgeArrays(widget)
    /\ pendingConnection = <<>>
    /\ modalState = <<>>
    /\ selectedNodeId = NoId
    /\ selectedEdgeId = NoId
    /\ now = 1
    /\ calls = <<>>
    /\ lastOp = Op("mount", NoId, NoId, "")
    /\ prevStructureKey = <<>>
    /\ cachedLayout = EmptyLayout
    /\ rfData = EmptyLayout
    /\ solverRan = FALSE
    /\ steps = 0
    /\ localNodes = <<>>
    /\ localEdges = <<>>
    /\ effectsPending = FALSE
    /\ readOnly = FALSE

NextConverters == RoundTrip

SpecConverters == InitConverters /\ [][NextConverters]_vars

-----------------------------------------------------------------------------
(* All four widgets, one mounted per behaviour. *)
Init == InitFlow \/ InitApp2 \/ InitOnChange \/ InitApp3

Next == NextFlow \/ NextApp2 \/ NextOnChange \/ NextApp3

Spec == Init /\ [][Next]_vars

-----------------------------------------------------------------------------
(* Properties                                                              *)

Triple(e) == <<e.source, e.target, e.connectionType>>

(* C1: no two edges of the edge set share the same (source, target,        *)
(* connectionType) triple, whatever operations were applied to a graph     *)
(* that started without duplicates.                                        *)
C1_NoDuplicateTriple ==
    \A i, j \in 1..Len(edges) : i # j => Triple(edges[i]) # Triple(edges[j])

HasCall(cs, cb) == \E k \in 1..Len(cs) : cs[k].cb = cb

(* C2: finalizing a connection whose (source, target, type) is already an  *)
(* edge leaves the edge set unchanged, returns the negotiator to Idle and  *)
(* reports no new edge to the owner.                                       *)
C2_DuplicateFinalizeSuppressed ==
    [][(/\ lastOp'.op = "handleConnectionTypeSelect"
        /\ \E i \in 1..Len(edges) : Triple(edges[i]) = <<lastOp'.a, lastOp'.b, lastOp'.t>>)
       => /\ edges' = edges
          /\ pendingConnection' = <<>>
          /\ ~HasCall(calls', "onEdgeConnect")
          /\ ~HasCall(calls', "onChange")]_vars

(* C3: a connect gesture whose source equals its target never starts a     *)
(* pending gesture, adds no edge and raises no notification of a new edge;  *)
(* no pending gesture ever has equal endpoints.                            *)
C3_SelfLoopConnectRejected ==
    [][/\ (lastOp'.op \in {"onConnect", "handleConnect"} /\ lastOp'.a = lastOp'.b)
          => /\ pendingConnection' = pendingConnection
             /\ edges' = edges
             /\ calls' = <<>>
       /\ pendingConnection' # <<>>
          => pendingConnection'[1].source # pendingConnection'[1].target]_vars

(* C4: no edge of a reachable graph has its source equal to its target; a  *)
(* reconnect to equal endpoints leaves the edges unchanged and reports     *)
(* nothing to the owner.                                                   *)
C4_NoSelfLoopEdge ==
    [][/\ \A i \in 1..Len(edges') : edges'[i].source # edges'[i].target
       /\ (lastOp'.op = "onReconnect" /\ lastOp'.a = lastOp'.b)
          => (edges' = edges /\ calls' = <<>>)]_vars

Successors(S, es) == {es[i].target : i \in {k \in 1..Len(es) : es[k].source \in S}}

RECURSIVE Reachable(_, _)
Reachable(S, es) ==
    LET T == S \cup Successors(S, es)
    IN IF T = S THEN S ELSE Reachable(T, es)

(* C5: subtree delete of node n removes exactly n and the nodes reachable  *)
(* from n along outgoing edges, removes exactly the edges with an endpoint *)
(* among them, and keeps every other node and edge.                        *)
C5_SubtreeDeleteExact ==
    [][lastOp'.op = "handleDelete"
       => LET gone == Reachable({lastOp'.a}, edges)
          IN /\ NodeIds(nodes') = NodeIds(nodes) \ gone
             /\ Len(nodes') = Len(nodes) - Cardinality({i \in 1..Len(nodes) : nodes[i].id \in gone})
             /\ edges' = SelectSeq(edges, LAMBDA e : e.source \notin gone /\ e.target \notin gone)]_vars

NoRepeats(seq) == \A i, j \in 1..Len(seq) : i # j => seq[i] # seq[j]

(* C6: the cascade traversal of a subtree delete terminates on every       *)
(* reachable graph, cyclic ones included, and visits no node twice.        *)
C6_TraversalTerminates ==
    [][lastOp'.op = "handleDelete"
       => LET walk == getDescendants(lastOp'.a, edges, 1)
          IN /\ lastOp'.r # "RangeError"
             /\ ~walk.overflow
             /\ NoRepeats(<<lastOp'.a>> \o walk.ids)]_vars

(* C7: edges-only delete of node n removes n and exactly the edges with    *)
(* source n or target n; every other node and edge remains, former         *)
(* children of n included.                                                 *)
C7_EdgesOnlyDelete ==
    [][(\/ lastOp'.op = "handleNodeDelete"
        \/ lastOp'.op = "handleNodeChange" /\ lastOp'.t = "remove")
       => LET n == lastOp'.a
          IN /\ n \in NodeIds(nodes)
             /\ Range(nodes') = {x \in Range(nodes) : x.id # n}
             /\ Len(nodes') = Len(nodes) - Cardinality({i \in 1..Len(nodes) : nodes[i].id = n})
             /\ Range(edges') = {e \in Range(edges) : e.source # n /\ e.target # n}
             /\ Len(edges') = Len(edges)
                   - Cardinality({i \in 1..Len(edges) : edges[i].source = n \/ edges[i].target = n})]_vars

(* B deleted from A->B->C: C stays, with no incoming edge. *)
C7_Witness ==
    /\ IsApp3
    /\ lastOp.op = "handleNodeDelete"
    /\ lastOp.a = B
    /\ NodeIds(nodes) = {A, C}
    /\ edges = <<>>
    /\ steps = 1

(* Id and style under which the canvas shows an owner's or the widget's edge. *)
shownId(e) == IF IsFlow THEN e.id ELSE derivedEdgeId(e)
shownStyle(e) ==
    IF IsFlow THEN [color |-> e.stroke, animated |-> e.animated]
    ELSE LET rf == toRFEdgesControlled(<<e>>)[1]
         IN [color |-> rf.stroke, animated |-> rf.animated]

(* C8: after a successful reconnect of an edge of type t to new endpoints  *)
(* the edge set holds an edge between them of type t in the style of t,    *)
(* the edge no longer sits at its old endpoints, and every edge keeps its  *)
(* connectionType: each edge afterwards is the moved one or an untouched   *)
(* earlier edge.                                                           *)
C8_ReconnectPreservesType ==
    [][(/\ lastOp'.op = "onReconnect"
        /\ lastOp'.r = "ok"
        /\ widget \in {"OrgNetworkFlow", "onChangeWidget"})
       => LET moved == SelectSeq(edges, LAMBDA e : shownId(e) = lastOp'.e)
              t == moved[1].connectionType
              to == <<lastOp'.a, lastOp'.b, t>>
          IN /\ moved # <<>>
             /\ \E k \in 1..Len(edges') :
                   /\ Triple(edges'[k]) = to
                   /\ shownStyle(edges'[k]) = CONNECTION_TYPES[t]
             /\ Triple(moved[1]) # to
                   => \A k \in 1..Len(edges') : shownId(edges'[k]) # lastOp'.e
             /\ \A k \in 1..Len(edges') :
                   edges'[k] \in Range(edges) \/ Triple(edges'[k]) = to]_vars

(* The funds edge e2 from a to b was moved to end at c. *)
C8_Witness ==
    /\ IsFlow
    /\ lastOp.op = "onReconnect"
    /\ lastOp.r = "ok"
    /\ lastOp.e = <<"e", "2">>
    /\ lastOp.t = "funds"
    /\ \E k \in 1..Len(edges) :
          Triple(edges[k]) = <<A, C, "funds">> /\ edges[k].stroke = CONNECTION_TYPES["funds"].color
    /\ \A k \in 1..Len(edges) : Triple(edges[k]) # <<A, B, "funds">>

(* C9: the negotiator holds at most one pending gesture; a connect         *)
(* delivered while one awaits its type leaves exactly the new gesture      *)
(* pending without adding an edge or notifying the owner; an edge that a   *)
(* type selection adds joins the endpoints of the gesture pending then.    *)
C9_SingleFlight ==
    [][/\ Len(pendingConnection') <= 1
       /\ (lastOp'.op = "onConnect" /\ lastOp'.r = "ok" /\ pendingConnection # <<>>)
          => /\ Len(pendingConnection') = 1
             /\ pendingConnection'[1].source = lastOp'.a
             /\ pendingConnection'[1].target = lastOp'.b
             /\ edges' = edges
             /\ calls' = <<>>
       /\ (lastOp'.op = "handleConnectionTypeSelect" /\ edges' # edges)
          => /\ pendingConnection # <<>>
             /\ edges' = Append(edges, edges'[Len(edges')])
             /\ edges'[Len(edges')].source = pendingConnection[1].source
             /\ edges'[Len(edges')].target = pendingConnection[1].target
             /\ \A k \in 1..Len(calls') :
                   calls'[k].cb = "onEdgeConnect"
                      => (calls'[k].a = pendingConnection[1].source
                          /\ calls'[k].b = pendingConnection[1].target)]_vars

(* A gesture from b to c replaced one that was awaiting its type. *)
C9_Witness ==
    /\ lastOp.op = "onConnect"
    /\ lastOp.t = "superseding"
    /\ lastOp.r = "ok"
    /\ Len(pendingConnection) = 1
    /\ pendingConnection[1].source = B
    /\ pendingConnection[1].target = C
    /\ calls = <<>>

sameStructure ==
    /\ [i \in 1..Len(nodes') |-> nodes'[i].id] = [i \in 1..Len(nodes) |-> nodes[i].id]
    /\ edges' = edges
    /\ direction' = direction

(* C10: a pass after a change of only label, description, memberCount,     *)
(* selection or drag position of a controlled widget keeps the structural  *)
(* fingerprint and does not invoke the layout solver.                      *)
C10_CosmeticChangeKeepsLayout ==
    [][(widget # "OrgNetworkFlow" /\ sameStructure)
       => /\ structureKey(nodes', edges', direction') = structureKey(nodes, edges, direction)
          /\ ~solverRan']_vars

(* A step that is a pass of the structural-key widget's rfData memo. *)
IsPass == lastOp'.op = "render"
IsKeyedPass == IsPass /\ IsOrgNetwork

sameProps == nodes' = nodes /\ edges' = edges /\ direction' = direction

(* C11: two consecutive passes over the same nodes, edges and direction    *)
(* return the same position for every node, also when a node carries a     *)
(* position of its own and the first of the two passes ran the solver.     *)
C11_IdempotentLayoutCache ==
    [][(IsKeyedPass /\ sameProps) => rfData' = rfData]_vars

(* C16: every pass shows a node that carries a position other than the     *)
(* origin at exactly that position, a node at the origin at its cached     *)
(* solver position, and a node with neither at the origin.                 *)
C16_ManualPositionWins ==
    [][IsKeyedPass =>
         \A i \in 1..Len(nodes') :
            LET n == nodes'[i]
            IN rfData'[n.id] =
                  IF n.position # <<0, 0>> THEN n.position
                  ELSE IF n.id \in DOMAIN cachedLayout' THEN cachedLayout'[n.id]
                  ELSE <<0, 0>>]_vars

pairCount(es, s, t) == Cardinality({i \in 1..Len(es) : es[i].source = s /\ es[i].target = t})

samePairs(es1, es2) ==
    \A e \in Range(es1) \cup Range(es2) :
        pairCount(es1, e.source, e.target) = pairCount(es2, e.source, e.target)

sameGraphShape ==
    /\ NodeIds(nodes') = NodeIds(nodes)
    /\ samePairs(edges', edges)
    /\ direction' = direction

(* C18: two graphs that differ in their node ids, in their multiset of     *)
(* (source, target) pairs or in direction have different fingerprints,     *)
(* also for ids that contain ',' or '-', so the pass that follows a        *)
(* structural change lays out anew.                                        *)
C18_FingerprintSeparates ==
    [][(IsPass /\ ~sameGraphShape)
       => /\ structureKey(nodes', edges', direction') # structureKey(nodes, edges, direction)
          /\ solverRan']_vars

(* A node for which the widget has to find the position itself. *)
unplaced(n) == IF IsChart THEN n.position = NoPosition ELSE n.position = <<0, 0>>

(* C19: after every pass every node has a position, and a node without a   *)
(* position of its own stands where the solver puts it for the current     *)
(* nodes, edges and direction, not where it put it for earlier ones.       *)
C19_PositionsAreCurrent ==
    [][IsPass =>
         /\ DOMAIN rfData' = NodeIds(nodes')
         /\ \A i \in 1..Len(nodes') :
               unplaced(nodes'[i]) =>
                  rfData'[nodes'[i].id]
                     = layoutMap(getLayoutedNodes(nodes', edges', direction'))[nodes'[i].id]]_vars

(* C12: the ids of the node set are pairwise distinct after any sequence   *)
(* of add-child operations, two of them within one millisecond included:   *)
(* a generated id differs from every id already present.                   *)
C12_NodeIdsDistinct ==
    NoRepeats([i \in 1..Len(nodes) |-> nodes[i].id])

sameFields(x, y, K) ==
    \A k \in K : /\ (k \in DOMAIN x) = (k \in DOMAIN y)
                 /\ k \in DOMAIN x => x[k] = y[k]

(* C13: converting the owner's nodes and edges to the canvas arrays and    *)
(* back gives, for every node, the original id, label, description,        *)
(* memberCount and type, and for every edge the original id, source,       *)
(* target, connectionType, label and type.                                 *)
C13_RoundTripReproduces ==
    [][lastOp'.op = "toSimplified" =>
          /\ Len(calls'[1].a) = Len(nodes) /\ Len(calls'[1].b) = Len(edges)
          /\ \A i \in 1..Len(nodes) :
                sameFields(nodes[i], calls'[1].a[i],
                           {"id", "label", "description", "memberCount", "type"})
          /\ \A i \in 1..Len(edges) :
                sameFields(edges[i], calls'[1].b[i],
                           {"id", "source", "target", "connectionType", "label", "type"})]_vars

isMutationCall(c) ==
    c.cb \in {"onChange", "onNodeAdd", "onNodeEdit", "onNodeDelete", "onEdgeConnect",
              "onEdgeAdd", "onEdgeEdit", "onEdgeDelete", "onEdgeTypeChange", "onNodesChange",
              "onEdgesChange", "onReconnect", "onConnect"}

(* C14: while readOnly is true no event changes the node array, the edge   *)
(* array or the pending connection, and no mutation callback reaches the   *)
(* owner.                                                                  *)
C14_ReadOnlyFreezes ==
    [][readOnly =>
          /\ nodes' = nodes
          /\ edges' = edges
          /\ pendingConnection' = pendingConnection
          /\ \A i \in 1..Len(calls') : ~isMutationCall(calls'[i])]_vars

nodeIdsOf(ns) == {ns[i].id : i \in 1..Len(ns)}
triplesOf(es) == {<<es[i].source, es[i].target, es[i].connectionType>> : i \in 1..Len(es)}

(* C15: every step of the self-managed widget that changes its node ids or *)
(* its edge triples invokes onChange.                                      *)
C15_OnChangeAfterEveryChange ==
    [][(IsFlow /\ (nodeIdsOf(nodes') # nodeIdsOf(nodes) \/ triplesOf(edges') # triplesOf(edges)))
          => HasCall(calls', "onChange")]_vars

(* C20: choosing a type for a pending gesture (s, t) when no edge          *)
(* (s, t, type) exists ends the gesture and appends exactly one edge       *)
(* (s, t, type) whose id is derived from the triple; the nodes and the     *)
(* other edges stay as they were, also when s and t are already joined by  *)
(* an edge of another type.                                                *)
C20_FinalizeAppendsOneEdge ==
    [][(/\ IsFlow
        /\ lastOp'.op = "handleConnectionTypeSelect"
        /\ pendingConnection # <<>>
        /\ <<lastOp'.a, lastOp'.b, lastOp'.t>> \notin triplesOf(edges))
          => /\ pendingConnection' = <<>>
             /\ nodes' = nodes
             /\ Len(edges') = Len(edges) + 1
             /\ SubSeq(edges', 1, Len(edges)) = edges
             /\ LET e == edges'[Len(edges')]
                IN /\ <<e.source, e.target, e.connectionType>> = <<lastOp'.a, lastOp'.b, lastOp'.t>>
                   /\ e.id = EdgeId(lastOp'.a, lastOp'.b, lastOp'.t)]_vars

isEdgeCall(c) == c.cb \in {"onChange", "onEdgeConnect", "onEdgeTypeChange", "onEdgeDelete"}

(* C21: cancelling a pending gesture (escape key or click outside the      *)
(* picker, pane click) returns the negotiator to Idle and leaves the       *)
(* nodes, the edges and the direction as they were, with no edge           *)
(* notification to the owner; a type selection delivered while no gesture  *)
(* is pending changes nothing.                                             *)
C21_CancelLeavesGraph ==
    [][/\ (lastOp'.op \in {"handleConnectionCancel", "onPaneClick"} /\ pendingConnection # <<>>)
          => /\ pendingConnection' = <<>>
             /\ nodes' = nodes
             /\ edges' = edges
             /\ direction' = direction
             /\ \A k \in 1..Len(calls') : ~isEdgeCall(calls'[k])
       /\ (lastOp'.op = "handleConnectionTypeSelect" /\ pendingConnection = <<>>)
          => /\ UNCHANGED <<nodes, edges, direction, pendingConnection, selectedNodeId, selectedEdgeId>>
             /\ calls' = <<>>]_vars

(* A pending gesture was cancelled from the picker. *)
C21_Witness ==
    /\ IsFlow
    /\ lastOp.op = "handleConnectionCancel"
    /\ pendingConnection = <<>>
    /\ steps >= 2

(* C22: a gesture awaiting its type holds a source and a target that are   *)
(* both ids of nodes of the node set: no connect with an unknown endpoint  *)
(* becomes pending, and no gesture stays pending once one of its endpoints *)
(* has been deleted.                                                       *)
C22_PendingEndpointsExist ==
    pendingConnection # <<>>
       => /\ pendingConnection[1].source \in NodeIds(nodes)
          /\ pendingConnection[1].target \in NodeIds(nodes)

(* C23: every edge's source and target are ids of nodes of the node set    *)
(* (no dangling edge), after any interleaving of add child, edit, delete   *)
(* node, connect, type selection, cancel, reconnect, retype and delete     *)
(* edge on a graph that started that way.                                  *)
C23_NoDanglingEdge ==
    \A i \in 1..Len(edges) :
        /\ edges[i].source \in NodeIds(nodes)
        /\ edges[i].target \in NodeIds(nodes)

idOfEdge(e) == IF "id" \in DOMAIN e THEN e.id ELSE derivedEdgeId(e)
dropAt(seq, i) == SubSeq(seq, 1, i - 1) \o SubSeq(seq, i + 1, Len(seq))

(* C24: a reconnect of edge e to distinct endpoints (s, t) that another    *)
(* edge already joins with e's type leaves the edges unchanged and reports *)
(* nothing to the owner; otherwise e becomes (s, t, type of e) and every   *)
(* other edge is as it was.                                                *)
C24_ReconnectDuplicateRefused ==
    [][(lastOp'.op = "onReconnect" /\ lastOp'.a # lastOp'.b)
          => \A i \in 1..Len(edges) :
                idOfEdge(edges[i]) = lastOp'.e
                   => LET moved == <<lastOp'.a, lastOp'.b, edges[i].connectionType>>
                      IN IF \E k \in 1..Len(edges) : k # i /\ Triple(edges[k]) = moved
                         THEN edges' = edges /\ calls' = <<>>
                         ELSE \E j \in 1..Len(edges') :
                                 /\ Triple(edges'[j]) = moved
                                 /\ dropAt(edges', j) = dropAt(edges, i)]_vars

isAddCommit(o) ==
    \/ o.op = "handleModalConfirm" /\ o.t = "add"
    \/ o.op = "handleAddConfirm"

(* C25: committing an add child whose parent is not in the node set leaves *)
(* nodes and edges unchanged; with a known parent it adds exactly one node *)
(* and exactly one edge (parent, new node, reports-to) and leaves the id,  *)
(* label and description of every earlier node and every earlier edge as  *)
(* they were.                                                              *)
C25_AddChildExact ==
    [][isAddCommit(lastOp')
          => IF lastOp'.a \notin NodeIds(nodes)
             THEN nodes' = nodes /\ edges' = edges
             ELSE /\ Len(nodes') = Len(nodes) + 1
                  /\ Len(edges') = Len(edges) + 1
                  /\ Triple(edges'[Len(edges')]) = <<lastOp'.a, nodes'[Len(nodes')].id, "reports-to">>
                  /\ SubSeq(edges', 1, Len(edges)) = edges
                  /\ \A i \in 1..Len(nodes) :
                        /\ nodes'[i].id = nodes[i].id
                        /\ nodes'[i].label = nodes[i].label
                        /\ nodes'[i].description = nodes[i].description]_vars

isEditCommit(o) ==
    \/ o.op = "handleModalConfirm" /\ o.t = "edit"
    \/ o.op = "handleEditConfirm"

(* C26: committing an edit of node n changes only n's label and            *)
(* description: n's id and position, every other node, the edges and the   *)
(* layout fingerprint are as before, and the layout solver is not called.  *)
C26_EditTouchesLabelOnly ==
    [][isEditCommit(lastOp')
          => /\ Len(nodes') = Len(nodes)
             /\ \A i \in 1..Len(nodes) :
                   /\ nodes'[i].id = nodes[i].id
                   /\ nodes'[i].position = nodes[i].position
                   /\ nodes[i].id # lastOp'.a => nodes'[i] = nodes[i]
             /\ edges' = edges
             /\ structureKey(nodes', edges', direction') = structureKey(nodes, edges, direction)
             /\ ~solverRan']_vars

(* An edit gave the edited node its new label. *)
C26_Witness ==
    /\ isEditCommit(lastOp)
    /\ \E i \in 1..Len(nodes) : nodes[i].id = lastOp.a /\ nodes[i].label \in Names

(* C27: after a change of type of the selected edge the tracked edge id is *)
(* the edge's new id; after a retype, a reconnect or a node delete, a      *)
(* tracked edge id that is not null is the id of an edge of the edge set.  *)
C27_SelectedEdgeTracked ==
    [][/\ (lastOp'.op = "handleEdgeTypeChange" /\ selectedEdgeId = lastOp'.e)
          => \E i \in 1..Len(edges) :
                /\ edges[i].id = lastOp'.e
                /\ selectedEdgeId' = EdgeId(edges[i].source, edges[i].target, lastOp'.t)
       /\ (lastOp'.op \in {"handleEdgeTypeChange", "onReconnect", "handleDelete"}
             /\ selectedEdgeId' # NoId)
          => \E i \in 1..Len(edges') : edges'[i].id = selectedEdgeId']_vars

staleNodeOp(o) ==
    /\ \/ o.op = "handleDelete"
       \/ isEditCommit(o)
    /\ o.a \notin NodeIds(nodes)
staleEdgeOp(o) ==
    /\ o.op \in {"handleDeleteEdge", "handleEdgeTypeChange"}
    /\ o.e \notin EdgeIds(edges)

(* C28: delete node, delete edge, edit node or change edge type invoked    *)
(* with an id that is not in the graph leaves the nodes (their positions   *)
(* included) and the edges unchanged and delivers none of onChange,        *)
(* onNodeDelete, onEdgeTypeChange, onNodeEdit to the owner.                *)
C28_StaleIdIsNoOp ==
    [][(staleNodeOp(lastOp') \/ staleEdgeOp(lastOp'))
          => /\ nodes' = nodes
             /\ edges' = edges
             /\ \A k \in 1..Len(calls') :
                   calls'[k].cb \notin {"onChange", "onNodeDelete", "onEdgeTypeChange", "onNodeEdit"}]_vars

(* C29: the ids of the edges of the edge set are pairwise distinct in      *)
(* every reachable state, whatever add child, finalize connection,         *)
(* reconnect and change edge type operations produced them.                *)
C29_EdgeIdsDistinct ==
    NoRepeats([i \in 1..Len(edges) |-> idOfEdge(edges[i])])

(* C30: every edge that finalize connection, add child, reconnect or       *)
(* change edge type created or modified has afterwards the id              *)
(* 'e-<source>-<target>-<connectionType>' derived from its current source, *)
(* target and type.                                                        *)
C30_EdgeIdDerived ==
    [][(\/ lastOp'.op \in {"handleConnectionTypeSelect", "onReconnect", "handleEdgeTypeChange"}
        \/ isAddCommit(lastOp'))
          => \A j \in 1..Len(edges') :
                edges'[j] \notin Range(edges)
                   => edges'[j].id = EdgeId(edges'[j].source, edges'[j].target, edges'[j].connectionType)]_vars

(* A reconnect moved an edge, which now carries the id of its new triple. *)
C30_Witness ==
    /\ IsFlow
    /\ lastOp.op = "onReconnect"
    /\ lastOp.r = "ok"
    /\ \E i \in 1..Len(edges) :
          /\ Triple(edges[i]) = <<lastOp.a, lastOp.b, lastOp.t>>
          /\ edges[i].id = EdgeId(lastOp.a, lastOp.b, lastOp.t)
          /\ edges[i].id # lastOp.e

(* C34: in the self-managed widget at most one of selectedNodeId and       *)
(* selectedEdgeId is set, and a selectedNodeId that is set is the id of a  *)
(* node of the node set.                                                   *)
C34_SelectionConsistent ==
    IsFlow
       => /\ selectedNodeId = NoId \/ selectedEdgeId = NoId
          /\ selectedNodeId # NoId => selectedNodeId \in NodeIds(nodes)

(* C32: when the user declines the prompt of a delete action the nodes,    *)
(* the edges and the selection are unchanged and nothing is reported to    *)
(* the owner; the edge is removed only when the prompt was confirmed.      *)
C32_DeclinedDeleteIsNoOp ==
    [][/\ lastOp'.r = "declined"
          => /\ UNCHANGED <<nodes, edges, selectedNodeId, selectedEdgeId>>
             /\ calls' = <<>>
       /\ (lastOp'.op = "handleDeleteEdge" /\ lastOp'.r = "ok")
          => /\ lastOp'.e \in EdgeIds(edges)
             /\ edges' = SelectSeq(edges, LAMBDA e : e.id # lastOp'.e)
             /\ nodes' = nodes]_vars

(* The prompt for the selected edge was declined. *)
C32_Witness ==
    /\ lastOp.op = "handleDeleteEdge"
    /\ lastOp.r = "declined"
    /\ selectedEdgeId = lastOp.e
    /\ lastOp.e \in EdgeIds(edges)

(* The node ids and edge ids of a pair of arrays. *)
CanvasPair == <<NodeIds(localNodes), EdgeIds(localEdges)>>
OwnerPair == <<NodeIds(nodes), EdgeIds(edges)>>

(* C31: every pass of the canvas shows the node set and the edge set of    *)
(* one and the same owner state: both as they were before the operation or *)
(* both as they are after it, never the nodes of one with the edges of the *)
(* other.                                                                  *)
C31_NodesAndEdgesInOneStep ==
    [][IsCanvas => (CanvasPair' = OwnerPair \/ CanvasPair' = OwnerPair')]_vars

====
